---- MODULE Spec2Model ----
(***************************************************************************)
(* The snapshot cache of the NOAA space weather server (src/server.js):    *)
(* memoryCache, the single-flight refresh of getFreshData(), the Vercel    *)
(* Blob recovery and save, and the routes that call it.                    *)
(*                                                                         *)
(* One action is one run of the event loop from an external event (a       *)
(* request arriving, an I/O promise settling, time passing) to the next    *)
(* suspension: the promise reactions that follow within the same macrotask *)
(* (waiters resuming, the routes answering) are part of the action.        *)
(*                                                                         *)
(* The extractor (src/unnamed/part_000) is modelled next to it: the feed   *)
(* retrievals of one fetchAll() call (fetchJSON, fetchText and their       *)
(* timers), Promise.allSettled and the assembly of the snapshot.  In Spec  *)
(* a fetchAll() call is one pending promise; FetchAllSpec opens it up.     *)
(* ScanSpec calls the scanning helpers of the extractor (getLastValidRow,  *)
(* getLastValidObject, getLastValidByEnergy, parseAuroraText) on their     *)
(* own, on every array or text of a bounded family.                        *)
(*                                                                         *)
(* OutageSpec is the server without a blob store in which a refresh may    *)
(* also find every feed down.  AuthSpec is the server with API_KEY set,    *)
(* reached by requests with and without the key.  EvaluateSpec calls       *)
(* evaluate() of the alert engine (src/unnamed/part_001) on the data of a  *)
(* snapshot and lets /api/alerts summarise the result.                     *)
(***************************************************************************)
EXTENDS Integers, Sequences, FiniteSets, TLC

\* ---------------------------------------------------------------- bounds
NCallers == 2      \* concurrent HTTP requests
MaxCycles == 2     \* refresh blocks started over a run
MaxTicks == 2      \* times the clock advances
NFeeds == 3        \* feeds of the FEEDS table that FetchAllSpec retrieves
MaxLen == 3        \* rows, records or lines of the arrays the helpers are called on

\* ------------------------------------------------------------- constants
CACHE_TTL == 300000

\* Date.now() at process start: an epoch time, far above the TTL
StartMs == 4 * CACHE_TTL

Callers == 1..NCallers
\* the clock is sampled every half TTL: ages 0, TTL/2 (fresh), TTL (the boundary), ...
TickSteps == {CACHE_TTL \div 2}

\* null is the empty sequence, a value v is <<v>>
Null == <<>>
Some(v) == <<v>>

VARIABLES
    clock,        \* Date.now()
    ticks,        \* number of clock advances so far (bounds the run)
    blobToken,    \* process.env.BLOB_READ_WRITE_TOKEN is set
    blob,         \* content of noaa-cache.json in the blob store, or Null
    pendingPut,   \* JSON bodies of background put() calls not yet settled
    memoryCache,  \* the current entry object; id is the object's identity
    born,         \* history variable: that object's fields when it was created
    isFetching,
    fetchPromise, \* 0 (null) or the refresh block whose promise it is
    ref,          \* the refresh blocks (async IIFE of getFreshData) started so far
    callers,      \* the open requests: where each is suspended
    invalPending, \* history variable: invalidated and no getFreshData() call since
    out,          \* history variable: what the latest step returned, and to whom
    client,       \* per feed: where fetchJSON/fetchText is, its timer, calls made
    results,      \* per feed: the settled result Promise.allSettled collects
    fetchAllPc,   \* "idle", "awaiting" (allSettled), "resolved", "rejected"
    fetchAllRet,  \* what fetchAll() resolved with, or Null
    scan,         \* one call of a scanning helper: its arguments and what it returned
    API_KEY,      \* process.env.API_KEY || null, null written ""
    req           \* history variable: the credentials of the request last checked

cacheVars == <<clock, ticks, blobToken, blob, pendingPut, memoryCache, born,
               isFetching, fetchPromise, ref, callers, invalPending, out>>

feedVars == <<client, results, fetchAllPc, fetchAllRet>>

scanVars == <<scan>>

authVars == <<API_KEY, req>>

vars == <<cacheVars, feedVars, scanVars, authVars>>

\* the feeds of fetchAll(), in the order of its Promise.allSettled array, by
\* the name getResult() reports them under
FeedNames ==
    <<"Solar Wind Mag", "Solar Wind Plasma", "Kp Index 1m", "Kp Index Official",
      "X-Ray Flux", "Proton Flux", "Electron Flux", "Electron Flux (Differential)",
      "F10.7 Flux", "Aurora Power">>

\* The feeds are independent of each other; FetchAllSpec runs the first NFeeds
\* of this list: a table of rows, a stream with channels, the text feed, ...
FeedOrder == <<1, 5, 10, 3, 4, 9, 2, 6, 7, 8>>

Feeds == {FeedOrder[i] : i \in 1..NFeeds}

\* fetchJSON/fetchText not called
IdleClient == [pc |-> "none", timeout |-> "none", attempts |-> 0]

\* an element of the allSettled array not yet settled
PendingResult == [status |-> "pending", value |-> Null, reason |-> "none"]

\* let memoryCache = { data: null, evaluation: null, history: null, lastFetchBaseMs: 0 }
\* Only memoryCache refers to an entry across a suspension (the routes use the
\* entry they are given before they return), so one object is live at a time;
\* the object created by refresh block r has identity r, the initial one 0.
EmptyEntry ==
    [id |-> 0, data |-> Null, evaluation |-> Null, history |-> Null, lastFetchBaseMs |-> 0]

\* JSON.stringify(memoryCache): the fields' values as text, no longer the object
ToJSON(e) ==
    [data |-> e.data, evaluation |-> e.evaluation, history |-> e.history,
     lastFetchBaseMs |-> e.lastFetchBaseMs]

\* const blobCache = await res.json(); memoryCache = blobCache: a new object
FromJSON(j, newId) ==
    [id |-> newId, data |-> j.data, evaluation |-> j.evaluation, history |-> j.history,
     lastFetchBaseMs |-> j.lastFetchBaseMs]

\* what a previous process left in the store: a saved entry of the given age
SavedEarlier(age) ==
    ToJSON([id |-> 0,
            data |-> Some([cycle |-> 0, extraction_time |-> StartMs - age, reading |-> "num"]),
            evaluation |-> Some([of |-> 0, reading |-> "num"]),
            history |-> Some([cycle |-> 0]),
            lastFetchBaseMs |-> StartMs - age])

\* a request not yet arrived, or answered
IdleCaller == [pc |-> "idle", via |-> 0]

NoResponse == [got |-> FALSE, ret |-> 0, err |-> 0]

\* a step in which getFreshData() was neither called nor resumed
NoOut ==
    [get |-> 0, sawInv |-> FALSE, hit |-> FALSE,
     r |-> 0, outcome |-> "none", stage |-> "none", start |-> 0, forced |-> FALSE,
     aggCalls |-> 0, cause |-> "none", resp |-> [c \in Callers |-> NoResponse]]

\* the API key of a deployment that sets one
KEY == "secret"

\* what a request can carry as x-api-key header or as key query parameter:
\* nothing (written ""), a string that is not the key, the key
Credentials == {"", "guess", KEY}

\* no request has been checked against the key
NoReq == [header |-> "", query |-> ""]

\* the module-level state of server.js and of the extractor once both are loaded
Loaded ==
    /\ clock = StartMs
    /\ ticks = 0
    /\ blobToken \in BOOLEAN
    /\ blob \in IF blobToken
                THEN {Null, Some(SavedEarlier(CACHE_TTL \div 2))}
                ELSE {Null}
    /\ pendingPut = {}
    /\ memoryCache = EmptyEntry
    /\ born = EmptyEntry
    /\ isFetching = FALSE
    /\ fetchPromise = 0
    /\ ref = <<>>
    /\ callers = [c \in Callers |-> IdleCaller]
    /\ invalPending = FALSE
    /\ out = NoOut
    /\ client = [f \in Feeds |-> IdleClient]
    /\ results = [f \in Feeds |-> PendingResult]
    /\ fetchAllPc = "idle"
    /\ fetchAllRet = Null
    /\ req = NoReq

\* no helper of the extractor has been called on its own
NoScan == [fn |-> "none", pc |-> "none"]

Init ==
    /\ Loaded
    /\ API_KEY = ""
    /\ scan = NoScan

\* ------------------------------------------------------- getFreshData()

\* mutant: an entry aged exactly the TTL still counts as fresh
IsFreshInclusive(e, now) == e.data # Null /\ now - e.lastFetchBaseMs <= CACHE_TTL

\* mutant: the age comparison turned around
IsFreshReversed(e, now) == e.data # Null /\ now - e.lastFetchBaseMs > CACHE_TTL

\* if (memoryCache.data && (now - memoryCache.lastFetchBaseMs < CACHE_TTL))
IsFresh(e, now) == e.data # Null /\ now - e.lastFetchBaseMs < CACHE_TTL

\* mutant: the single-flight guard left out
AlreadyFetchingUnchecked == FALSE

\* if (isFetching) return await fetchPromise
AlreadyFetching == isFetching

\* mutant: the persisted copy adopted whatever its age
BlobIsFreshAlways(blobCache, now) == TRUE

\* if (now - blobCache.lastFetchBaseMs < CACHE_TTL)
BlobIsFresh(blobCache, now) == now - blobCache.lastFetchBaseMs < CACHE_TTL

\* What one upstream payload can look like, as far as the cache can tell:
\* "num" numeric readings, "str" a flux delivered as a string above its threshold.
\* "absent" is the snapshot of a cycle in which every retrieval failed: every
\* reading null, every feed in errors.  The cache treats it as it treats "num";
\* OutageSpec tells the two apart.
Readings == {"num", "str"}

\* extractor.fetchAll() resolving in refresh block r, started at time t0
FetchAllResult(r, t0, rd) == [cycle |-> r, extraction_time |-> t0, reading |-> rd]

\* extractor.fetchRawHistory() resolving in refresh block r
HistoryResult(r) == [cycle |-> r]

\* alerts.evaluate(result.data): pFlux?.toFixed(1) throws on a string flux
EvaluateThrows(result) == result.reading = "str"

Evaluate(result) == [of |-> result.cycle, reading |-> result.reading]

\* mutant: the entry stamped with the time the fetch started
NewEntryStampedAtStart(result, history) ==
    [id |-> result.cycle,
     data |-> Some(result),
     evaluation |-> Some(Evaluate(result)),
     history |-> Some(history),
     lastFetchBaseMs |-> result.extraction_time]

\* mutant: the evaluation of the previous entry kept instead of recomputed
NewEntryKeepsEvaluation(result, history) ==
    [id |-> result.cycle,
     data |-> Some(result),
     evaluation |-> IF memoryCache.evaluation = Null
                    THEN Some(Evaluate(result))
                    ELSE memoryCache.evaluation,
     history |-> Some(history),
     lastFetchBaseMs |-> clock]

\* memoryCache = { data: result, evaluation: ..., history: history, lastFetchBaseMs: Date.now() }
NewEntry(result, history) ==
    [id |-> result.cycle,
     data |-> Some(result),
     evaluation |-> Some(Evaluate(result)),
     history |-> Some(history),
     lastFetchBaseMs |-> clock]

\* mutant: the catch block always rethrows
HasFallbackNever(e) == FALSE

\* mutant: the catch block never rethrows
HasFallbackAlways(e) == TRUE

\* catch (err) { if (memoryCache.data) return memoryCache; throw err; }
HasFallback(e) == e.data # Null

\* mutant: invalidation resets the whole entry
InvalidateDiscards(e) == [EmptyEntry EXCEPT !.id = e.id]

\* memoryCache.lastFetchBaseMs = 0
Invalidate(e) == [e EXCEPT !.lastFetchBaseMs = 0]

\* a refresh block as it is called
NewRefresh ==
    [pc |-> "new", now |-> clock, startTime |-> 0, body |-> Null,
     fa |-> "none", fh |-> "none", result |-> Null, hist |-> Null,
     start |-> memoryCache.id, forced |-> FALSE, aggCalls |-> 0]

\* a refresh block whose promise has settled: its locals are dead
SettledRefresh ==
    [pc |-> "settled", now |-> 0, startTime |-> 0, body |-> Null,
     fa |-> "none", fh |-> "none", result |-> Null, hist |-> Null,
     start |-> 0, forced |-> FALSE, aggCalls |-> 0]

\* const [result, history] = await Promise.all([extractor.fetchAll(), extractor.fetchRawHistory()])
\* up to the await: both calls are issued, the block suspends
StartNoaa(rec) ==
    [rec EXCEPT !.pc = "noaa", !.startTime = clock, !.fa = "pending", !.fh = "pending",
                !.aggCalls = @ + 1]

\* mutant: the store is read whenever the token is set, snapshot or not
RunToFirstAwaitAlwaysReads(rec, e) ==
    IF blobToken
    THEN [rec EXCEPT !.pc = "blobList"]
    ELSE StartNoaa(rec)

\* the async block from its call to its first await
RunToFirstAwait(rec, e) ==
    IF e.data = Null /\ blobToken
    THEN [rec EXCEPT !.pc = "blobList"]
    ELSE StartNoaa(rec)

InFlight == {r \in DOMAIN ref : ref[r].pc # "settled"}

\* getFreshData() called by request c with memoryCache as e, up to its first
\* suspension (or its return on a cache hit, which answers the request)
GetFreshData(c, e, pend) ==
    LET now == clock
        inv == pend /\ born.data # Null
    IN  /\ memoryCache' = e
        /\ invalPending' = FALSE
        /\ UNCHANGED born
        /\ IF IsFresh(e, now)
           THEN /\ callers' = [callers EXCEPT ![c] = IdleCaller]
                /\ out' = [NoOut EXCEPT !.get = c, !.sawInv = inv, !.hit = TRUE,
                              !.resp[c] = [got |-> TRUE, ret |-> e.id, err |-> 0]]
                /\ UNCHANGED <<isFetching, fetchPromise, ref>>
           ELSE IF AlreadyFetching
           THEN /\ fetchPromise # 0
                /\ callers' = [callers EXCEPT ![c] = [pc |-> "waiting", via |-> fetchPromise]]
                /\ out' = [NoOut EXCEPT !.get = c, !.sawInv = inv]
                /\ UNCHANGED <<isFetching, fetchPromise, ref>>
           ELSE /\ Len(ref) < MaxCycles
                /\ isFetching' = TRUE
                /\ fetchPromise' = Len(ref) + 1
                /\ ref' = Append(ref, RunToFirstAwait(
                              [NewRefresh EXCEPT !.forced =
                                  born.data # Null /\ e.lastFetchBaseMs = 0], e))
                /\ callers' = [callers EXCEPT ![c] = [pc |-> "waiting", via |-> Len(ref) + 1]]
                /\ out' = [NoOut EXCEPT !.get = c, !.sawInv = inv]

\* what was thrown into the catch block of a refresh whose locals are rec, if
\* anything: a rejection of fetchAll() or fetchRawHistory(), or evaluate() throwing
Cause(rec) ==
    IF rec.fa = "failed" THEN "fetchAll"
    ELSE IF rec.fh = "failed" THEN "fetchRawHistory"
    ELSE IF rec.fa = "ok" /\ rec.fh = "ok" /\ EvaluateThrows(rec.result[1]) THEN "evaluate"
    ELSE "none"

\* finally { isFetching = false; fetchPromise = null } and the promise of block r
\* settling: every request awaiting it resumes with the value or the error and
\* is answered
Settle(r, rec, outcome, value, err) ==
    /\ ref' = [ref EXCEPT ![r] = SettledRefresh]
    /\ isFetching' = FALSE
    /\ fetchPromise' = 0
    /\ callers' = [c \in Callers |->
                      IF callers[c].pc = "waiting" /\ callers[c].via = r
                      THEN IdleCaller ELSE callers[c]]
    /\ out' = [NoOut EXCEPT
                  !.r = r, !.outcome = outcome, !.stage = ref[r].pc,
                  !.start = rec.start, !.forced = rec.forced, !.aggCalls = rec.aggCalls,
                  !.cause = Cause(rec),
                  !.resp = [c \in Callers |->
                               IF callers[c].pc = "waiting" /\ callers[c].via = r
                               THEN [got |-> TRUE, ret |-> value, err |-> err]
                               ELSE NoResponse]]

\* mutant: the fallback also saves the old snapshot to the store
CatchSaves(r, rec) ==
    /\ IF HasFallback(memoryCache)
       THEN /\ Settle(r, rec, "fallback", memoryCache.id, 0)
            /\ pendingPut' = IF blobToken THEN pendingPut \cup {ToJSON(memoryCache)}
                              ELSE pendingPut
       ELSE /\ Settle(r, rec, "error", 0, r)
            /\ UNCHANGED pendingPut
    /\ UNCHANGED <<memoryCache, born>>

\* mutant: the fallback stamps the old snapshot as if it had just been fetched
CatchRenews(r, rec) ==
    /\ IF HasFallback(memoryCache)
       THEN /\ Settle(r, rec, "fallback", memoryCache.id, 0)
            /\ memoryCache' = [memoryCache EXCEPT !.lastFetchBaseMs = clock]
       ELSE /\ Settle(r, rec, "error", 0, r)
            /\ UNCHANGED memoryCache
    /\ UNCHANGED <<born, pendingPut>>

\* the catch block of refresh r
Catch(r, rec) ==
    /\ IF HasFallback(memoryCache)
       THEN Settle(r, rec, "fallback", memoryCache.id, 0)
       ELSE Settle(r, rec, "error", 0, r)
    /\ UNCHANGED <<memoryCache, born, pendingPut>>

\* mutant: data is replaced before alerts.evaluate() is called
ContinueInstallsThenEvaluates(r, rec, result, history) ==
    IF EvaluateThrows(result)
    THEN /\ memoryCache' = [memoryCache EXCEPT !.data = Some(result)]
         /\ Settle(r, rec, "fallback", memoryCache.id, 0)
         /\ UNCHANGED <<born, pendingPut>>
    ELSE LET e == NewEntry(result, history)
         IN  /\ memoryCache' = e
             /\ born' = e
             /\ pendingPut' = IF blobToken THEN pendingPut \cup {ToJSON(e)} ELSE pendingPut
             /\ Settle(r, rec, "installed", e.id, 0)

\* mutant: a snapshot without a single reading is treated as a failed refresh
ContinueRejectsSparse(r, rec, result, history) ==
    IF EvaluateThrows(result) \/ result.reading = "absent"
    THEN Catch(r, rec)
    ELSE LET e == NewEntry(result, history)
         IN  /\ memoryCache' = e
             /\ born' = e
             /\ pendingPut' = IF blobToken THEN pendingPut \cup {ToJSON(e)} ELSE pendingPut
             /\ Settle(r, rec, "installed", e.id, 0)

\* lines 119-140: Promise.all resolved with result and history
Continue(r, rec, result, history) ==
    IF EvaluateThrows(result)
    THEN Catch(r, rec)
    ELSE LET e == NewEntry(result, history)
         IN  /\ memoryCache' = e
             /\ born' = e
             /\ pendingPut' = IF blobToken THEN pendingPut \cup {ToJSON(e)} ELSE pendingPut
             /\ Settle(r, rec, "installed", e.id, 0)

\* ------------------------------------------------------------- actions

\* ---- lines 47-52: the API key middleware in front of every /api route

\* the credentials a request is sent with; a deployment without a key returns
\* from the middleware before it reads them (line 48)
Sent == IF API_KEY = "" THEN {""} ELSE Credentials

\* const provided = req.headers['x-api-key'] || req.query.key
Provided(header, query) == IF header # "" THEN header ELSE query

\* if (!API_KEY) return next(); if (provided === API_KEY) return next()
Authorized(provided) == API_KEY = "" \/ provided = API_KEY

\* the middleware has looked at the request's credentials
Checked(header, query) ==
    /\ req' = IF API_KEY = "" THEN req ELSE [header |-> header, query |-> query]
    /\ UNCHANGED API_KEY

\* mutant: the entry is invalidated before the request is turned away
Respond401Invalidates(c) ==
    /\ out' = [NoOut EXCEPT !.resp[c] = [got |-> TRUE, ret |-> 0, err |-> 401]]
    /\ memoryCache' = Invalidate(memoryCache)
    /\ UNCHANGED <<born, isFetching, fetchPromise, ref, callers, invalPending>>

\* res.status(401).json({ error: 'Unauthorized ...' }): no route runs
Respond401(c) ==
    /\ out' = [NoOut EXCEPT !.resp[c] = [got |-> TRUE, ret |-> 0, err |-> 401]]
    /\ UNCHANGED <<memoryCache, born, isFetching, fetchPromise, ref, callers, invalPending>>

\* ---- the routes

\* GET /api/status, /api/alerts, /api/history/*: const c = await getFreshData()
GetRoute(c) ==
    /\ callers[c].pc = "idle"
    /\ \E header, query \in Sent :
          /\ Checked(header, query)
          /\ IF Authorized(Provided(header, query))
             THEN GetFreshData(c, memoryCache, invalPending)
             ELSE Respond401(c)
    /\ UNCHANGED <<clock, ticks, blobToken, blob, pendingPut>>
    /\ UNCHANGED <<feedVars, scanVars>>

\* POST /api/fetch: invalidate, then (no blob token) straight into getFreshData()
PostFetch(c) ==
    /\ callers[c].pc = "idle"
    /\ \E header, query \in Sent :
          /\ Checked(header, query)
          /\ IF ~Authorized(Provided(header, query))
             THEN Respond401(c)
             ELSE IF blobToken
             THEN /\ memoryCache' = Invalidate(memoryCache)
                  /\ invalPending' = (born.data # Null)
                  /\ callers' = [callers EXCEPT ![c] = [pc |-> "awaitDel", via |-> 0]]
                  /\ out' = NoOut
                  /\ UNCHANGED <<born, isFetching, fetchPromise, ref>>
             ELSE GetFreshData(c, Invalidate(memoryCache), TRUE)
    /\ UNCHANGED <<clock, ticks, blobToken, blob, pendingPut>>
    /\ UNCHANGED <<feedVars, scanVars>>

\* await del('noaa-cache.json') settles (a rejection is swallowed), then getFreshData()
DelSettled(c) ==
    /\ callers[c].pc = "awaitDel"
    /\ \E ok \in BOOLEAN : blob' = IF ok THEN Null ELSE blob
    /\ GetFreshData(c, memoryCache, invalPending)
    /\ UNCHANGED <<clock, ticks, blobToken, pendingPut>>
    /\ UNCHANGED <<feedVars, scanVars, authVars>>

\* mutant: no inner try/catch, a store error reaches the catch block of the refresh
BlobReadErrorPropagates(r) == Catch(r, ref[r])

\* catch (err) { console.error('Blob read error (falling back to NOAA fetch)') }
\* and on to step 4
BlobReadError(r) ==
    /\ ref' = [ref EXCEPT ![r] = StartNoaa(@)]
    /\ out' = NoOut
    /\ UNCHANGED <<memoryCache, born, pendingPut, isFetching, fetchPromise, callers>>

\* await list({ prefix, limit: 1 }) settles
BlobListSettled(r) ==
    /\ r \in DOMAIN ref
    /\ ref[r].pc = "blobList"
    /\ \E ok \in BOOLEAN :
          IF ok
          THEN /\ ref' = [ref EXCEPT ![r] =
                              IF blob # Null THEN [@ EXCEPT !.pc = "blobFetch"]
                              ELSE StartNoaa(@)]
               /\ out' = NoOut
               /\ UNCHANGED <<memoryCache, born, pendingPut, isFetching, fetchPromise,
                              callers>>
          ELSE BlobReadError(r)
    /\ UNCHANGED <<clock, ticks, blobToken, blob, invalPending>>
    /\ UNCHANGED <<feedVars, scanVars, authVars>>

\* await fetch(blobs[0].url) settles; the response carries the store's content
BlobFetchSettled(r) ==
    /\ r \in DOMAIN ref
    /\ ref[r].pc = "blobFetch"
    /\ \E ok \in BOOLEAN :
          IF ok
          THEN /\ ref' = [ref EXCEPT ![r] = [@ EXCEPT !.pc = "blobJson", !.body = blob]]
               /\ out' = NoOut
               /\ UNCHANGED <<memoryCache, born, pendingPut, isFetching, fetchPromise,
                              callers>>
          ELSE BlobReadError(r)
    /\ UNCHANGED <<clock, ticks, blobToken, blob, invalPending>>
    /\ UNCHANGED <<feedVars, scanVars, authVars>>

\* await res.json() settles: adopt a fresh copy, else go on to NOAA; the body
\* of a copy deleted meanwhile has no lastFetchBaseMs and is never fresh
BlobJsonSettled(r) ==
    /\ r \in DOMAIN ref
    /\ ref[r].pc = "blobJson"
    /\ \E ok \in BOOLEAN :
          IF ok
          THEN IF ref[r].body # Null /\ BlobIsFresh(ref[r].body[1], ref[r].now)
               THEN /\ memoryCache' = FromJSON(ref[r].body[1], r)
                    /\ born' = FromJSON(ref[r].body[1], r)
                    /\ UNCHANGED pendingPut
                    /\ Settle(r, ref[r], "adopted", r, 0)
               ELSE /\ ref' = [ref EXCEPT ![r] = StartNoaa(@)]
                    /\ out' = NoOut
                    /\ UNCHANGED <<memoryCache, born, pendingPut, isFetching,
                                   fetchPromise, callers>>
          ELSE BlobReadError(r)
    /\ UNCHANGED <<clock, ticks, blobToken, blob, invalPending>>
    /\ UNCHANGED <<feedVars, scanVars, authVars>>

\* the promise of extractor.fetchAll() resolves with a snapshot of kind rd
FetchAllResolved(r, rd) ==
    LET result == FetchAllResult(r, ref[r].startTime, rd)
        rec == [ref[r] EXCEPT !.fa = "ok", !.result = Some(result)]
    IN  IF ref[r].fh = "ok"
        THEN Continue(r, rec, result, ref[r].hist[1])
        ELSE /\ ref' = [ref EXCEPT ![r] = rec]
             /\ out' = NoOut
             /\ UNCHANGED <<memoryCache, born, isFetching, fetchPromise,
                            callers, pendingPut>>

\* the promise of extractor.fetchAll() settles
FetchAllSettled(r) ==
    /\ r \in DOMAIN ref
    /\ ref[r].pc = "noaa"
    /\ ref[r].fa = "pending"
    /\ \/ \E rd \in Readings : FetchAllResolved(r, rd)
       \/ Catch(r, [ref[r] EXCEPT !.fa = "failed"])
    /\ UNCHANGED <<clock, ticks, blobToken, blob, invalPending>>
    /\ UNCHANGED <<feedVars, scanVars, authVars>>

\* the promise of extractor.fetchRawHistory() settles
HistorySettled(r) ==
    /\ r \in DOMAIN ref
    /\ ref[r].pc = "noaa"
    /\ ref[r].fh = "pending"
    /\ \/ LET history == HistoryResult(r)
              rec == [ref[r] EXCEPT !.fh = "ok", !.hist = Some(history)]
          IN  IF ref[r].fa = "ok"
              THEN Continue(r, rec, ref[r].result[1], history)
              ELSE /\ ref' = [ref EXCEPT ![r] = rec]
                   /\ out' = NoOut
                   /\ UNCHANGED <<memoryCache, born, isFetching, fetchPromise,
                                  callers, pendingPut>>
       \/ Catch(r, [ref[r] EXCEPT !.fh = "failed"])
    /\ UNCHANGED <<clock, ticks, blobToken, blob, invalPending>>
    /\ UNCHANGED <<feedVars, scanVars, authVars>>

\* the background put('noaa-cache.json', ...) settles; a failure is only logged
PutSettled(j) ==
    /\ j \in pendingPut
    /\ pendingPut' = pendingPut \ {j}
    /\ \E ok \in BOOLEAN : blob' = IF ok THEN Some(j) ELSE blob
    /\ out' = NoOut
    /\ UNCHANGED <<clock, ticks, blobToken, memoryCache, born, isFetching,
                   fetchPromise, ref, callers, invalPending>>
    /\ UNCHANGED <<feedVars, scanVars, authVars>>

\* time passes
Tick(d) ==
    /\ ticks < MaxTicks
    /\ ticks' = ticks + 1
    /\ clock' = clock + d
    /\ out' = NoOut
    /\ UNCHANGED <<blobToken, blob, pendingPut, memoryCache, born, isFetching,
                   fetchPromise, ref, callers, invalPending>>
    /\ UNCHANGED <<feedVars, scanVars, authVars>>

Next ==
    \/ \E c \in Callers : GetRoute(c)
    \/ \E c \in Callers : PostFetch(c)
    \/ \E c \in Callers : DelSettled(c)
    \/ \E r \in 1..MaxCycles : BlobListSettled(r)
    \/ \E r \in 1..MaxCycles : BlobFetchSettled(r)
    \/ \E r \in 1..MaxCycles : BlobJsonSettled(r)
    \/ \E r \in 1..MaxCycles : FetchAllSettled(r)
    \/ \E r \in 1..MaxCycles : HistorySettled(r)
    \/ \E j \in pendingPut : PutSettled(j)
    \/ \E d \in TickSteps : Tick(d)

Spec == Init /\ [][Next]_vars

\* What the code makes sure will happen: every fetchJSON/fetchText call is cut
\* off by its own 15 s timer, so the promises of fetchAll() and fetchRawHistory()
\* settle.  list(), fetch(blobs[0].url), res.json(), del() and put() are awaited
\* with no timer: nothing in the code makes them settle.
FairSpec ==
    /\ Spec
    /\ \A r \in 1..MaxCycles : WF_vars(FetchAllSettled(r)) /\ WF_vars(HistorySettled(r))

\* every retrieval of the cycle failed (upstream outage): fetchAll() resolves
\* all the same, with every reading null and every feed in errors
AllFeedsFailed(r) ==
    /\ r \in DOMAIN ref
    /\ ref[r].pc = "noaa"
    /\ ref[r].fa = "pending"
    /\ FetchAllResolved(r, "absent")
    /\ UNCHANGED <<clock, ticks, blobToken, blob, invalPending>>
    /\ UNCHANGED <<feedVars, scanVars, authVars>>

\* the server without a store token, through upstream outages
OutageInit ==
    /\ Loaded
    /\ API_KEY = ""
    /\ ~blobToken
    /\ scan = NoScan

OutageNext ==
    \/ \E c \in Callers : GetRoute(c)
    \/ \E c \in Callers : PostFetch(c)
    \/ \E r \in 1..MaxCycles : FetchAllSettled(r)
    \/ \E r \in 1..MaxCycles : AllFeedsFailed(r)
    \/ \E r \in 1..MaxCycles : HistorySettled(r)
    \/ \E d \in TickSteps : Tick(d)

OutageSpec == OutageInit /\ [][OutageNext]_vars

\* A deployment with API_KEY set and no blob store: requests arrive with every
\* combination of credentials.
AuthInit ==
    /\ Loaded
    /\ API_KEY = KEY
    /\ ~blobToken
    /\ scan = NoScan

AuthNext ==
    \/ \E c \in Callers : GetRoute(c)
    \/ \E c \in Callers : PostFetch(c)
    \/ \E r \in 1..MaxCycles : FetchAllSettled(r)
    \/ \E r \in 1..MaxCycles : HistorySettled(r)
    \/ \E d \in TickSteps : Tick(d)

AuthSpec == AuthInit /\ [][AuthNext]_vars

\* ----------------------------------------------------------- extractor
\* Cells, field values and tokens are written as their JSON text: "null" is
\* JSON null, "" the empty string, the others numeric literals.  A payload, an
\* array element or a reading is Null or Some(value).

Max(a, b) == IF a >= b THEN a ELSE b

\* the texts parseFloat reads a number from, with the number it reads (a
\* leading numeric prefix is enough: "34GW" reads as 34)
NumberOf ==
    [x \in {"0", "1.0", "2.0", "3.0", "5.0", "6.0", "34", "34GW"} |->
        CASE x = "0" -> "0"
          [] x = "1.0" -> "1"
          [] x = "2.0" -> "2"
          [] x = "3.0" -> "3"
          [] x = "5.0" -> "5"
          [] x = "6.0" -> "6"
          [] x \in {"34", "34GW"} -> "34"]

Numeric == DOMAIN NumberOf

\* parseFloat(x): the number, or NaN
ParseFloat(x) == IF x \in Numeric THEN NumberOf[x] ELSE "NaN"

\* mutant: the cell tested for truthiness, so that the number 0 is absent
CellPresentTruthy(row, colIndex) ==
    /\ colIndex + 1 <= Len(row)
    /\ row[colIndex + 1] \notin {"null", "", "0"}

\* row[colIndex] !== null && row[colIndex] !== '' && row[colIndex] !== undefined
CellPresent(row, colIndex) ==
    /\ colIndex + 1 <= Len(row)
    /\ row[colIndex + 1] \notin {"null", ""}

\* mutant: no fallback after the loop
RECURSIVE ScanRowsNoFallback(_, _, _, _)
ScanRowsNoFallback(arr, colIndex, i, lo) ==
    IF i < lo THEN Null
    ELSE IF CellPresent(arr[i + 1], colIndex) THEN Some(arr[i + 1])
    ELSE ScanRowsNoFallback(arr, colIndex, i - 1, lo)

\* the loop of getLastValidRow at 0-based index i, down to lo; then the fallback
RECURSIVE ScanRows(_, _, _, _)
ScanRows(arr, colIndex, i, lo) ==
    IF i < lo THEN Some(arr[Len(arr)])
    ELSE IF CellPresent(arr[i + 1], colIndex) THEN Some(arr[i + 1])
    ELSE ScanRows(arr, colIndex, i - 1, lo)

\* mutant: only the empty array is too short, so a lone header is the last row
GetLastValidRowFromHeader(arr, colIndex, maxSteps) ==
    IF arr = Null \/ Len(arr[1]) < 1 THEN Null
    ELSE ScanRows(arr[1], colIndex, Len(arr[1]) - 1, Max(1, Len(arr[1]) - maxSteps))

\* getLastValidRow(arr, colIndex, maxSteps = 5)
GetLastValidRow(arr, colIndex, maxSteps) ==
    IF arr = Null \/ Len(arr[1]) < 2 THEN Null
    ELSE ScanRows(arr[1], colIndex, Len(arr[1]) - 1, Max(1, Len(arr[1]) - maxSteps))

\* what a helper that may throw hands back
Ret(v) == [throws |-> FALSE, val |-> v]
Thrown == [throws |-> TRUE, val |-> Null]

\* the loop of getLastValidObject (no filter); item[field] of a null item throws
RECURSIVE ScanObjects(_, _, _, _)
ScanObjects(arr, field, i, lo) ==
    IF i < lo THEN Ret(Null)
    ELSE IF arr[i + 1] = Null THEN Thrown
    ELSE IF field \in DOMAIN arr[i + 1][1] /\ arr[i + 1][1][field] \notin {"null", ""}
         THEN Ret(arr[i + 1])
    ELSE ScanObjects(arr, field, i - 1, lo)

\* mutant: the whole array is scanned
GetLastValidObjectWholeArray(arr, field, maxSteps) ==
    IF arr = Null \/ Len(arr[1]) = 0 THEN Ret(Null)
    ELSE ScanObjects(arr[1], field, Len(arr[1]) - 1, 0)

\* getLastValidObject(arr, field, filter = null, maxSteps = 10)
GetLastValidObject(arr, field, maxSteps) ==
    IF arr = Null \/ Len(arr[1]) = 0 THEN Ret(Null)
    ELSE ScanObjects(arr[1], field, Len(arr[1]) - 1, Max(0, Len(arr[1]) - maxSteps))

\* mutant: the last record is taken when the loop finds none
RECURSIVE ScanByEnergyFallback(_, _, _, _)
ScanByEnergyFallback(arr, energyLabel, i, lo) ==
    IF i < lo THEN Ret(arr[Len(arr)])
    ELSE IF arr[i + 1] = Null THEN Thrown
    ELSE IF arr[i + 1][1].energy = energyLabel /\ arr[i + 1][1].flux # "null"
         THEN Ret(arr[i + 1])
    ELSE ScanByEnergyFallback(arr, energyLabel, i - 1, lo)

\* the loop of getLastValidByEnergy; item.energy of a null item throws
RECURSIVE ScanByEnergy(_, _, _, _)
ScanByEnergy(arr, energyLabel, i, lo) ==
    IF i < lo THEN Ret(Null)
    ELSE IF arr[i + 1] = Null THEN Thrown
    ELSE IF arr[i + 1][1].energy = energyLabel /\ arr[i + 1][1].flux # "null"
         THEN Ret(arr[i + 1])
    ELSE ScanByEnergy(arr, energyLabel, i - 1, lo)

\* mutant: the whole array is scanned
GetLastValidByEnergyWholeArray(arr, energyLabel, maxMinutes) ==
    IF arr = Null \/ Len(arr[1]) = 0 THEN Ret(Null)
    ELSE ScanByEnergy(arr[1], energyLabel, Len(arr[1]) - 1, 0)

\* getLastValidByEnergy(arr, energyLabel, maxMinutes = 5)
GetLastValidByEnergy(arr, energyLabel, maxMinutes) ==
    IF arr = Null \/ Len(arr[1]) = 0 THEN Ret(Null)
    ELSE ScanByEnergy(arr[1], energyLabel, Len(arr[1]) - 1,
                      Max(0, Len(arr[1]) - maxMinutes * 10))

\* mutant: only blank lines are dropped
DataLinesKeepComments(text) == SelectSeq(text, LAMBDA l : l.tokens # <<>>)

\* text.split('\n').filter(l => l.trim() && !l.startsWith('#')); a line is
\* [comment, indent, tokens]: whether it starts with '#', whether it starts with
\* white space, and its whitespace-separated tokens
DataLines(text) == SelectSeq(text, LAMBDA l : l.tokens # <<>> /\ ~l.comment)

\* lines[i].trim()
Trim(l) == [l EXCEPT !.indent = FALSE]

\* the loop of parseAuroraText over the filtered lines, from the last one
RECURSIVE ScanLines(_, _)
ScanLines(lines, i) ==
    IF i < 0 THEN Null
    ELSE LET parts == lines[i + 1].tokens
             lastVal == ParseFloat(parts[Len(parts)])
         IN  IF lastVal # "NaN" THEN Some([value |-> lastVal, line |-> Trim(lines[i + 1])])
             ELSE ScanLines(lines, i - 1)

\* parseAuroraText(text); the empty text is the empty sequence of lines
ParseAuroraText(text) ==
    IF text = <<>> THEN Null
    ELSE IF DataLines(text) = <<>> THEN Null
    ELSE ScanLines(DataLines(text), Len(DataLines(text)) - 1)

\* ---- what the feeds can deliver (res.json() / res.text() resolving)

MagHeader == <<"time_tag", "bx_gsm", "by_gsm", "bz_gsm", "lon_gsm", "lat_gsm", "bt">>
MagRow(t, bz) == <<t, "1.0", "2.0", bz, "3.0", "3.0", "6.0">>
PlasmaHeader == <<"time_tag", "density", "speed", "temperature">>
PlasmaRow(t, speed) == <<t, "5.0", speed, "6.0">>
KpHeader == <<"time_tag", "Kp", "a_running", "station_count">>
KpRow(t, n) == <<t, "3.0", "5.0", n>>
Item(t, e, fl) == Some([time_tag |-> t, energy |-> e, flux |-> fl])
KpItem(t, kp) == Some([time_tag |-> t, kp_index |-> kp, estimated_kp |-> kp])
F107Item(t, fl) == Some([time_tag |-> t, flux |-> fl])
CommentLine == [comment |-> TRUE, indent |-> FALSE, tokens |-> <<"#", "34">>]
DataLine == [comment |-> FALSE, indent |-> FALSE, tokens |-> <<"t1", "34">>]
JunkLine == [comment |-> FALSE, indent |-> FALSE, tokens |-> <<"t2", "n/a">>]

\* a table: JSON null, header only, a valid row, a valid row then a dropout,
\* only a dropout
Tables(header, row1, row2, drop1) ==
    {Null, Some(<<header>>), Some(<<header, row1>>), Some(<<header, row1, row2>>),
     Some(<<header, drop1>>)}

\* a stream with channels a and b: JSON null, empty, one record, two channels,
\* a valid record then a null flux, an array holding null
Streams(a, b) ==
    {Null, Some(<<>>), Some(<<Item("t1", a, "1.0")>>),
     Some(<<Item("t1", a, "1.0"), Item("t1", b, "2.0")>>),
     Some(<<Item("t1", a, "1.0"), Item("t2", a, "null")>>),
     Some(<<Null>>)}

Payloads(f) ==
    CASE f = 1 -> Tables(MagHeader, MagRow("t1", "5.0"), MagRow("t2", "null"),
                         MagRow("t1", "null"))
      [] f = 2 -> Tables(PlasmaHeader, PlasmaRow("t1", "5.0"), PlasmaRow("t2", ""),
                         PlasmaRow("t1", "null"))
      [] f = 3 -> {Null, Some(<<>>), Some(<<KpItem("t1", "3.0")>>),
                   Some(<<KpItem("t1", "3.0"), KpItem("t2", "null")>>), Some(<<Null>>)}
      [] f = 4 -> Tables(KpHeader, KpRow("t1", "5.0"), KpRow("t2", "null"),
                         KpRow("t1", "null"))
      [] f = 5 -> Streams("0.1-0.8nm", "0.05-0.4nm")
      [] f = 6 -> Streams(">=10 MeV", ">=50 MeV")
      [] f = 7 -> Streams(">=2 MeV", ">=0.8 MeV")
      [] f = 8 -> Streams("865 keV", "40 keV")
      [] f = 9 -> {Null, Some(<<>>), Some(<<F107Item("t1", "5.0")>>),
                   Some(<<F107Item("t1", "null")>>)}
      [] f = 10 -> {Some(<<>>), Some(<<CommentLine>>), Some(<<CommentLine, DataLine>>),
                    Some(<<DataLine, JunkLine>>)}

\* ---- lines 195-283: the readings fetchAll() derives from one feed's value

\* xrayItem ? { time_tag, energy, flux } : null
BandReading(x) ==
    IF x.val = Null THEN Null
    ELSE Some([time_tag |-> x.val[1].time_tag, energy |-> x.val[1].energy,
               flux |-> x.val[1].flux])

\* [throws, readings]: readings maps the snapshot's data fields fed by feed f
Extract(f, v) ==
    CASE f = 1 ->
           LET magRow == GetLastValidRow(v, 3, 5)
           IN  Ret([k \in {"solar_wind_mag"} |->
                     IF magRow = Null THEN Null
                     ELSE Some([time_tag |-> magRow[1][1],
                                bx_gsm |-> ParseFloat(magRow[1][2]),
                                by_gsm |-> ParseFloat(magRow[1][3]),
                                bz_gsm |-> ParseFloat(magRow[1][4]),
                                bt |-> ParseFloat(magRow[1][7])])])
      [] f = 2 ->
           LET plasmaRow == GetLastValidRow(v, 2, 5)
           IN  Ret([k \in {"solar_wind_plasma"} |->
                     IF plasmaRow = Null THEN Null
                     ELSE Some([time_tag |-> plasmaRow[1][1],
                                density |-> ParseFloat(plasmaRow[1][2]),
                                speed |-> ParseFloat(plasmaRow[1][3]),
                                temperature |-> ParseFloat(plasmaRow[1][4])])])
      [] f = 3 ->
           LET kp1mItem == GetLastValidObject(v, "kp_index", 10)
           IN  IF kp1mItem.throws THEN Thrown
               ELSE Ret([k \in {"kp_index_1m"} |-> kp1mItem.val])
      [] f = 4 ->
           LET kpOffRow == IF v # Null /\ Len(v[1]) > 1 THEN Some(v[1][Len(v[1])]) ELSE Null
           IN  Ret([k \in {"kp_index_official"} |->
                     IF kpOffRow = Null THEN Null
                     ELSE Some([time_tag |-> kpOffRow[1][1],
                                kp |-> kpOffRow[1][Len(kpOffRow[1])],
                                kp_value |-> ParseFloat(kpOffRow[1][Len(kpOffRow[1])])])])
      [] f = 5 ->
           LET xrayItem == GetLastValidByEnergy(v, "0.1-0.8nm", 5)
               xrayShort == GetLastValidByEnergy(v, "0.05-0.4nm", 5)
           IN  IF xrayItem.throws \/ xrayShort.throws THEN Thrown
               ELSE Ret([k \in {"xray_flux", "xray_flux_short"} |->
                          IF k = "xray_flux" THEN BandReading(xrayItem)
                          ELSE BandReading(xrayShort)])
      [] f = 6 ->
           LET protonItem == GetLastValidByEnergy(v, ">=10 MeV", 5)
               proton50 == GetLastValidByEnergy(v, ">=50 MeV", 5)
               proton100 == GetLastValidByEnergy(v, ">=100 MeV", 5)
           IN  IF protonItem.throws \/ proton50.throws \/ proton100.throws THEN Thrown
               ELSE Ret([k \in {"proton_flux", "proton_flux_50", "proton_flux_100"} |->
                          IF k = "proton_flux" THEN BandReading(protonItem)
                          ELSE IF k = "proton_flux_50" THEN BandReading(proton50)
                          ELSE BandReading(proton100)])
      [] f = 7 ->
           LET electronItem == GetLastValidByEnergy(v, ">=2 MeV", 5)
           IN  IF electronItem.throws THEN Thrown
               ELSE Ret([k \in {"electron_flux"} |-> BandReading(electronItem)])
      [] f = 8 ->
           LET electron08 == GetLastValidByEnergy(v, "865 keV", 5)
           IN  IF electron08.throws THEN Thrown
               ELSE Ret([k \in {"electron_flux_08"} |-> BandReading(electron08)])
      [] f = 9 ->
           LET f107Item == IF v # Null /\ Len(v[1]) > 0 THEN v[1][Len(v[1])] ELSE Null
           IN  Ret([k \in {"f107_flux"} |->
                     IF f107Item = Null THEN Null
                     ELSE Some([time_tag |-> f107Item[1].time_tag,
                                flux |-> f107Item[1].flux])])
      [] f = 10 ->
           LET auroraText == IF v = Null THEN <<>> ELSE v[1]
               auroraParsed == ParseAuroraText(auroraText)
           IN  Ret([k \in {"aurora_power"} |->
                     IF auroraParsed = Null THEN Null
                     ELSE Some([hemispheric_power_gw |-> auroraParsed[1].value,
                                raw_line |-> auroraParsed[1].line])])

\* the data fields of the snapshot that come from feed f
ReadingKeys(f) == DOMAIN Extract(f, Null).val

\* ---- lines 165-193 and 285-303: allSettled, getResult, the snapshot

\* mutant: the first settled retrieval is enough (Promise.race / Promise.any)
AnySettled(res) == \E f \in Feeds : res[f].status # "pending"

\* await Promise.allSettled([...]) resumes
AllSettled(res) == \A f \in Feeds : res[f].status # "pending"

\* getResult(idx, name): the value handed to the extraction
GetResult(res, f) == IF res[f].status = "fulfilled" THEN res[f].value ELSE Null

\* mutant: a successful retrieval with nothing in it reported as a failure
ErrorEntryOnEmpty(res, f) ==
    IF res[f].status = "fulfilled" /\ res[f].value # Null THEN <<>>
    ELSE <<[feed |-> FeedNames[f], error |-> res[f].reason]>>

\* mutant: getResult called once per reading instead of once per feed
ErrorEntryPerReading(res, f) ==
    IF res[f].status = "fulfilled" THEN <<>>
    ELSE IF Cardinality(ReadingKeys(f)) = 1
         THEN <<[feed |-> FeedNames[f], error |-> res[f].reason]>>
    ELSE <<[feed |-> FeedNames[f], error |-> res[f].reason],
           [feed |-> FeedNames[f], error |-> res[f].reason]>>

\* getResult(idx, name): errors.push({ feed: name, error: results[idx].reason?.message })
ErrorEntry(res, f) ==
    IF res[f].status = "fulfilled" THEN <<>>
    ELSE <<[feed |-> FeedNames[f], error |-> res[f].reason]>>

\* the errors array after the ten getResult calls, made in the array's order
RECURSIVE ErrorsFrom(_, _)
ErrorsFrom(res, idx) ==
    IF idx > Len(FeedNames) THEN <<>>
    ELSE (IF idx \in Feeds THEN ErrorEntry(res, idx) ELSE <<>>) \o ErrorsFrom(res, idx + 1)

\* mutant: a cycle without a single successful feed is made a failure
AssemblyThrowsWhenEmpty(res) ==
    \/ \E f \in Feeds : Extract(f, GetResult(res, f)).throws
    \/ \A f \in Feeds : res[f].status # "fulfilled"

\* an exception in lines 195-283 makes fetchAll() reject
AssemblyThrows(res) == \E f \in Feeds : Extract(f, GetResult(res, f)).throws

\* the feed a data field comes from
FeedOf(k) == CHOOSE f \in Feeds : k \in ReadingKeys(f)

\* return { extraction_time: timestamp, data: {...}, errors }
Snapshot(res, timestamp) ==
    [extraction_time |-> timestamp,
     data |-> [k \in UNION {ReadingKeys(f) : f \in Feeds} |->
                  Extract(FeedOf(k), GetResult(res, FeedOf(k))).val[k]],
     errors |-> ErrorsFrom(res, 1)]

\* ---- lines 50-81: fetchJSON / fetchText

\* mutant: clearTimeout only after a successful retrieval
ReleaseOnSuccess(c, path) ==
    [c EXCEPT !.pc = "done", !.timeout = IF path = "ok" THEN "cleared" ELSE @]

\* finally { clearTimeout(timeout) }, then the promise settles
Release(c, path) == [c EXCEPT !.pc = "done", !.timeout = "cleared"]

\* the promise of feed f settles with res; when it is the last one, fetchAll()
\* resumes from allSettled in the same turn and builds the snapshot
Settled(f, res, path) ==
    LET rs == [results EXCEPT ![f] = res]
    IN  /\ client' = [client EXCEPT ![f] = Release(@, path)]
        /\ results' = rs
        /\ IF fetchAllPc = "awaiting" /\ AllSettled(rs)
           THEN IF AssemblyThrows(rs)
                THEN fetchAllPc' = "rejected" /\ fetchAllRet' = Null
                ELSE fetchAllPc' = "resolved" /\ fetchAllRet' = Some(Snapshot(rs, clock))
           ELSE UNCHANGED <<fetchAllPc, fetchAllRet>>
        /\ UNCHANGED <<cacheVars, scanVars, authVars>>

\* return await res.json() / res.text()
Fulfil(f, value) ==
    Settled(f, [status |-> "fulfilled", value |-> value, reason |-> "none"], "ok")

\* mutant: a failed attempt is tried once more
RejectWithRetry(f, reason) ==
    IF client[f].attempts < 2
    THEN /\ client' = [client EXCEPT ![f] =
                          [pc |-> "fetch", timeout |-> "armed", attempts |-> @.attempts + 1]]
         /\ UNCHANGED <<results, fetchAllPc, fetchAllRet, cacheVars, scanVars, authVars>>
    ELSE Settled(f, [status |-> "rejected", value |-> Null, reason |-> reason], reason)

\* an exception leaves fetchJSON / fetchText through finally
Reject(f, reason) ==
    Settled(f, [status |-> "rejected", value |-> Null, reason |-> reason], reason)

\* fetchAll() called: the ten fetchJSON/fetchText calls run to their await fetch(),
\* each with its timer armed, then fetchAll() suspends in allSettled
FetchAllCall ==
    /\ fetchAllPc = "idle"
    /\ client' = [f \in Feeds |->
                     [pc |-> "fetch", timeout |-> "armed", attempts |-> client[f].attempts + 1]]
    /\ fetchAllPc' = "awaiting"
    /\ UNCHANGED <<results, fetchAllRet, cacheVars, scanVars, authVars>>

\* await fetch(url, ...) resolves with a response
ResponseArrives(f) ==
    /\ client[f].pc = "fetch"
    /\ \E ok \in BOOLEAN :
          IF ok
          THEN /\ client' = [client EXCEPT ![f].pc = "body"]
               /\ UNCHANGED <<results, fetchAllPc, fetchAllRet, cacheVars, scanVars, authVars>>
          ELSE Reject(f, "HTTP 503")

\* await fetch(url, ...) rejects: DNS, connection reset, ...
TransportError(f) ==
    /\ client[f].pc = "fetch"
    /\ Reject(f, "ECONNRESET")

\* await res.json() / res.text() resolves
BodyParsed(f) ==
    /\ client[f].pc = "body"
    /\ \E v \in Payloads(f) : Fulfil(f, v)

\* await res.json() rejects: the body is not JSON, or the stream breaks
BodyError(f) ==
    /\ client[f].pc = "body"
    /\ Reject(f, "invalid json")

\* the timer fires: controller.abort() makes the pending fetch or body read reject
TimeoutFires(f) ==
    /\ client[f].pc \in {"fetch", "body"}
    /\ client[f].timeout = "armed"
    /\ Reject(f, "aborted")

FetchAllNext ==
    \/ FetchAllCall
    \/ \E f \in Feeds : ResponseArrives(f)
    \/ \E f \in Feeds : TransportError(f)
    \/ \E f \in Feeds : BodyParsed(f)
    \/ \E f \in Feeds : BodyError(f)
    \/ \E f \in Feeds : TimeoutFires(f)

FetchAllSpec == Init /\ [][FetchAllNext]_vars

\* ---- lines 88-153: the scanning helpers called on their own

\* the time tag of the element at position i
Tag(i) == ToString(i)

\* a two-column table: header, then rows of a time tag and the designated cell
\* (colIndex 1); "undefined" stands for a row too short to have the cell
ScanHeader == <<"time_tag", "bz_gsm">>
RowCells == {"5.0", "0", "null", "", "n/a", "undefined"}
ScanRow(i, c) == IF c = "undefined" THEN <<Tag(i)>> ELSE <<Tag(i), c>>

\* missing, empty, every table of a header and up to MaxLen rows, and each of
\* these followed by a run of 4 rows with a null cell, which leaves one more
\* row inside the default window of 5 rows
RowArrays ==
    {Null, Some(<<>>)} \cup
    UNION {{Some(<<ScanHeader>> \o [i \in 1..n |-> ScanRow(i, cs[i])]) :
               cs \in [1..n -> RowCells]} : n \in 0..MaxLen} \cup
    UNION {{Some(<<ScanHeader>> \o
                 [i \in 1..(n + run) |->
                     IF i <= n THEN ScanRow(i, cs[i]) ELSE ScanRow(i, "null")]) :
               cs \in [1..n -> RowCells], run \in {4}} : n \in 0..MaxLen}

\* records of the planetary K feed; "undefined" stands for a record without
\* the field, "no record" for a null element of the array
FieldValues == {"3.0", "null", "", "n/a", "undefined", "no record"}
ScanObject(i, v) ==
    IF v = "no record" THEN Null
    ELSE IF v = "undefined" THEN Some([time_tag |-> Tag(i)])
    ELSE Some([time_tag |-> Tag(i), kp_index |-> v])

\* missing, every array of up to MaxLen records, and each of these followed
\* by a run of 9 records with a null field, which leaves one more record
\* inside the default window of 10 records
ObjectArrays ==
    {Null} \cup
    UNION {{Some([i \in 1..n |-> ScanObject(i, vs[i])]) :
               vs \in [1..n -> FieldValues]} : n \in 0..MaxLen} \cup
    UNION {{Some([i \in 1..(n + run) |->
                     IF i <= n THEN ScanObject(i, vs[i]) ELSE ScanObject(i, "null")]) :
               vs \in [1..n -> FieldValues], run \in {9}} : n \in 0..MaxLen}

\* records of a flux feed with the channels A and B
BandKinds == {<<"A", "2.0">>, <<"A", "null">>, <<"B", "3.0">>, <<"none", "no record">>}
ScanBand(i, k) == IF k[2] = "no record" THEN Null ELSE Item(Tag(i), k[1], k[2])

\* the lengths of a run of dropouts that leaves one more record inside the
\* window of maxMinutes = 1 (10 records) and of the default 5 (50 records)
RunLengths == {9, 49}

\* missing, every array of up to MaxLen records, and each of these followed by
\* a run of records of the other channel or of null fluxes
BandArrays ==
    {Null} \cup
    UNION {{Some([i \in 1..n |-> ScanBand(i, ks[i])]) :
               ks \in [1..n -> BandKinds]} : n \in 0..MaxLen} \cup
    UNION {{Some([i \in 1..(n + run) |->
                     IF i <= n THEN ScanBand(i, ks[i]) ELSE ScanBand(i, fill)]) :
               ks \in [1..n -> BandKinds], run \in RunLengths,
               fill \in {<<"A", "null">>, <<"B", "3.0">>}} : n \in 0..MaxLen}

\* lines of the hemispheric power text: blank, a comment, a reading, a line
\* with no number at its end, a reading with a unit glued to it, a reading
\* after white space, and a line with white space before its '#'
LineKinds == {"blank", "comment", "reading", "junk", "unit", "indented reading",
              "indented comment"}
ScanLine(i, k) ==
    CASE k = "blank" -> [comment |-> FALSE, indent |-> FALSE, tokens |-> <<>>]
      [] k = "comment" -> [comment |-> TRUE, indent |-> FALSE, tokens |-> <<"#", Tag(i), "34">>]
      [] k = "reading" -> [comment |-> FALSE, indent |-> FALSE, tokens |-> <<Tag(i), "34">>]
      [] k = "junk" -> [comment |-> FALSE, indent |-> FALSE, tokens |-> <<Tag(i), "n/a">>]
      [] k = "unit" -> [comment |-> FALSE, indent |-> FALSE, tokens |-> <<Tag(i), "34GW">>]
      [] k = "indented reading" ->
           [comment |-> FALSE, indent |-> TRUE, tokens |-> <<Tag(i), "34">>]
      [] k = "indented comment" ->
           [comment |-> FALSE, indent |-> TRUE, tokens |-> <<"#", Tag(i), "34">>]

\* every text of up to MaxLen lines
Texts ==
    UNION {{[i \in 1..n |-> ScanLine(i, ks[i])] : ks \in [1..n -> LineKinds]} :
              n \in 0..MaxLen}

\* a call with its arguments, not yet run
Called(fn, arr, key, max) ==
    [fn |-> fn, arr |-> arr, key |-> key, max |-> max, pc |-> "called", ret |-> Null]

\* the calls made: the defaults (5 rows, 10 records, 5 minutes) and windows
\* shorter than the arrays
ScanCalls ==
    {Called("getLastValidRow", arr, 1, maxSteps) :
        arr \in RowArrays, maxSteps \in {1, 2, 5}} \cup
    {Called("getLastValidObject", arr, "kp_index", maxSteps) :
        arr \in ObjectArrays, maxSteps \in {1, 2, 10}} \cup
    {Called("getLastValidByEnergy", arr, energyLabel, maxMinutes) :
        arr \in BandArrays, energyLabel \in {"A", "B"}, maxMinutes \in {1, 5}} \cup
    {Called("parseAuroraText", text, "none", 0) : text \in Texts}

\* one helper is called; the server is idle and the store plays no part
ScanInit ==
    /\ Loaded
    /\ API_KEY = ""
    /\ ~blobToken
    /\ scan \in ScanCalls

\* the call returns v
Returns(v) ==
    /\ scan' = [scan EXCEPT !.pc = "returned", !.ret = v]
    /\ UNCHANGED <<cacheVars, feedVars, authVars>>

\* the call returns r.val, or throws
ReturnsOrThrows(r) ==
    /\ scan' = [scan EXCEPT !.pc = IF r.throws THEN "threw" ELSE "returned",
                            !.ret = r.val]
    /\ UNCHANGED <<cacheVars, feedVars, authVars>>

GetLastValidRowRuns ==
    /\ scan.fn = "getLastValidRow" /\ scan.pc = "called"
    /\ Returns(GetLastValidRow(scan.arr, scan.key, scan.max))

GetLastValidObjectRuns ==
    /\ scan.fn = "getLastValidObject" /\ scan.pc = "called"
    /\ ReturnsOrThrows(GetLastValidObject(scan.arr, scan.key, scan.max))

GetLastValidByEnergyRuns ==
    /\ scan.fn = "getLastValidByEnergy" /\ scan.pc = "called"
    /\ ReturnsOrThrows(GetLastValidByEnergy(scan.arr, scan.key, scan.max))

ParseAuroraTextRuns ==
    /\ scan.fn = "parseAuroraText" /\ scan.pc = "called"
    /\ Returns(ParseAuroraText(scan.arr))

ScanNext ==
    \/ GetLastValidRowRuns
    \/ GetLastValidObjectRuns
    \/ GetLastValidByEnergyRuns
    \/ ParseAuroraTextRuns

ScanSpec == ScanInit /\ [][ScanNext]_vars

\* ------------------------------------------ alerts (src/unnamed/part_001)
\* evaluate() on the data of a snapshot, and the /api/alerts route that
\* summarises its result.

\* x-ray flux is counted in units of 1e-6 W/m2, so M1 is 10 and X1 is 100
THRESHOLDS ==
    [bzSouth |-> -5, windSpeed |-> 500,
     kpMinorStorm |-> 5, kpSevereStorm |-> 7,
     mClassFlare |-> 10, xClassFlare |-> 100,
     s1Radiation |-> 10, electronAlert |-> 1000,
     highDrag |-> 150, auroraActive |-> 50]

SEV ==
    [NOMINAL  |-> [level |-> 0, label |-> "NOMINAL"],
     INFO     |-> [level |-> 1, label |-> "INFO"],
     WATCH    |-> [level |-> 2, label |-> "WATCH"],
     WARNING  |-> [level |-> 3, label |-> "WARNING"],
     CRITICAL |-> [level |-> 4, label |-> "CRITICAL"]]

\* a JavaScript value read from the snapshot: null, undefined (the feed's
\* object is null and ?. short-circuits), a number, NaN (parseFloat of a cell
\* that is not a number), or a string that Number() converts to v
JsNull == [t |-> "null", v |-> 0]
JsUndefined == [t |-> "undefined", v |-> 0]
JsNaN == [t |-> "NaN", v |-> 0]
JsNumber(n) == [t |-> "number", v |-> n]
JsString(n) == [t |-> "string", v |-> n]

\* x !== null && x !== undefined
NotNullish(x) == x.t \notin {"null", "undefined"}

\* x >= n, x <= n, x > n: a numeric string is converted, NaN compares false
Ge(x, n) == x.t \in {"number", "string"} /\ x.v >= n
Le(x, n) == x.t \in {"number", "string"} /\ x.v <= n
Gt(x, n) == x.t \in {"number", "string"} /\ x.v > n

\* the metrics in the order evaluate() works through them
Metrics ==
    <<"solar_wind", "kp_index", "xray_flux", "proton_flux",
      "electron_flux", "f107_flux", "aurora_power">>

MetricNames == {Metrics[i] : i \in DOMAIN Metrics}

\* the id of the alert each metric pushes
AlertId(m) ==
    CASE m = "solar_wind"    -> "GEOMAG_STORM_IMMINENT"
      [] m = "kp_index"      -> "GEOMAG_STORM_ACTIVE"
      [] m = "xray_flux"     -> "RADIO_BLACKOUT"
      [] m = "proton_flux"   -> "RADIATION_STORM"
      [] m = "electron_flux" -> "DIELECTRIC_CHARGING"
      [] m = "f107_flux"     -> "HIGH_ATMOSPHERIC_DRAG"
      [] m = "aurora_power"  -> "AURORA_ACTIVE"

bzAlert(extracted) ==
    LET bz == extracted.solar_wind_mag
    IN  NotNullish(bz) /\ Le(bz, THRESHOLDS.bzSouth)

speedAlert(extracted) ==
    LET speed == extracted.solar_wind_plasma
    IN  NotNullish(speed) /\ Gt(speed, THRESHOLDS.windSpeed)

\* the status evaluate() gives metric m
Status(m, extracted) ==
    CASE m = "solar_wind" ->
           IF bzAlert(extracted) /\ speedAlert(extracted)
           THEN SEV.CRITICAL ELSE SEV.NOMINAL
      [] m = "kp_index" ->
           LET kp == extracted.kp_index_1m
           IN  IF NotNullish(kp) /\ Ge(kp, THRESHOLDS.kpSevereStorm) THEN SEV.CRITICAL
               ELSE IF NotNullish(kp) /\ Ge(kp, THRESHOLDS.kpMinorStorm) THEN SEV.WARNING
               ELSE SEV.NOMINAL
      [] m = "xray_flux" ->
           LET xFlux == extracted.xray_flux
           IN  IF NotNullish(xFlux) /\ Ge(xFlux, THRESHOLDS.xClassFlare) THEN SEV.CRITICAL
               ELSE IF NotNullish(xFlux) /\ Ge(xFlux, THRESHOLDS.mClassFlare) THEN SEV.WARNING
               ELSE SEV.NOMINAL
      [] m = "proton_flux" ->
           LET pFlux == extracted.proton_flux
           IN  IF NotNullish(pFlux) /\ Ge(pFlux, THRESHOLDS.s1Radiation)
               THEN SEV.WARNING ELSE SEV.NOMINAL
      [] m = "electron_flux" ->
           LET eFlux == extracted.electron_flux
           IN  IF NotNullish(eFlux) /\ Ge(eFlux, THRESHOLDS.electronAlert)
               THEN SEV.WARNING ELSE SEV.NOMINAL
      [] m = "f107_flux" ->
           LET f107 == extracted.f107_flux
           IN  IF NotNullish(f107) /\ Ge(f107, THRESHOLDS.highDrag)
               THEN SEV.WATCH ELSE SEV.NOMINAL
      [] m = "aurora_power" ->
           LET aurGW == extracted.aurora_power
           IN  IF NotNullish(aurGW) /\ Ge(aurGW, THRESHOLDS.auroraActive)
               THEN SEV.INFO ELSE SEV.NOMINAL

\* mutant: every alert is raised from WARNING up
RaisesFromWarning(m, extracted, sev) == sev.level >= SEV.WARNING.level

\* the condition of the if around metric m's alerts.push()
Raises(m, extracted, sev) ==
    CASE m = "solar_wind"   -> bzAlert(extracted) /\ speedAlert(extracted)
      [] m = "f107_flux"    -> sev.level >= SEV.WATCH.level
      [] m = "aurora_power" -> sev.level >= SEV.INFO.level
      [] OTHER              -> sev.level >= SEV.WARNING.level

\* building the alert of metric m throws: xFlux?.toExponential(2),
\* pFlux?.toFixed(1) and eFlux?.toFixed(0) are not functions of a string
MessageThrows(m, extracted) ==
    /\ m \in {"xray_flux", "proton_flux", "electron_flux"}
    /\ extracted[m].t = "string"

\* mutant: the alerts left in the order they were pushed
Unsorted(alerts) == alerts

\* alerts.sort((a, b) => b.severity.level - a.severity.level): a stable sort,
\* highest level first
SortBySeverity(alerts) ==
    LET AtLevel(l) == SelectSeq(alerts, LAMBDA a : a.severity.level = l)
    IN  AtLevel(4) \o AtLevel(3) \o AtLevel(2) \o AtLevel(1) \o AtLevel(0)

\* evaluate(extracted); of metrics only the status is kept
evaluate(extracted) ==
    LET sev == [m \in MetricNames |-> Status(m, extracted)]
        raised == SelectSeq(Metrics, LAMBDA m : Raises(m, extracted, sev[m]))
        pushed == [i \in DOMAIN raised |->
                      [id |-> AlertId(raised[i]), severity |-> sev[raised[i]]]]
    IN  IF \E i \in DOMAIN raised : MessageThrows(raised[i], extracted)
        THEN Thrown
        ELSE Ret([alerts |-> SortBySeverity(pushed),
                  metrics |-> [m \in MetricNames |-> [status |-> sev[m]]]])

\* the body /api/alerts answers with, from the evaluation of the entry
AlertsResponse(evaluation) ==
    LET hasAlerts == Len(evaluation.alerts) > 0
    IN  [has_alerts |-> hasAlerts,
         alert_count |-> Len(evaluation.alerts),
         highest_severity |-> IF hasAlerts
                              THEN evaluation.alerts[1].severity.label
                              ELSE "NOMINAL"]

\* the data evaluate() is called on: what fetchAll() can put into each field.
\* bz_gsm, speed and hemispheric_power_gw come out of parseFloat; kp_index and
\* the fluxes are the feed's own JSON values, numbers or strings
Extracted ==
    [solar_wind_mag    : {JsUndefined, JsNaN, JsNumber(-5), JsNumber(0)},
     solar_wind_plasma : {JsUndefined, JsNumber(500), JsNumber(501)},
     kp_index_1m       : {JsUndefined, JsNumber(4), JsNumber(5), JsString(7)},
     xray_flux         : {JsNull, JsNumber(9), JsNumber(10), JsNumber(100), JsString(100)},
     proton_flux       : {JsNull, JsNumber(10), JsString(10)},
     electron_flux     : {JsUndefined, JsNumber(999), JsNumber(1000)},
     f107_flux         : {JsNull, JsNumber(149), JsNumber(150)},
     aurora_power      : {JsUndefined, JsNumber(49), JsNumber(50)}]

\* evaluate() is called on data; the server is idle and the store plays no part
EvaluateInit ==
    /\ Loaded
    /\ API_KEY = ""
    /\ ~blobToken
    /\ scan \in {[fn |-> "evaluate", extracted |-> x, pc |-> "called",
                  ret |-> Null, res |-> Null] : x \in Extracted}

EvaluateRuns ==
    /\ scan.fn = "evaluate" /\ scan.pc = "called"
    /\ ReturnsOrThrows(evaluate(scan.extracted))

\* GET /api/alerts answering from the evaluation
AlertsRoute ==
    /\ scan.fn = "evaluate" /\ scan.pc = "returned"
    /\ scan' = [scan EXCEPT !.pc = "answered", !.res = Some(AlertsResponse(scan.ret))]
    /\ UNCHANGED <<cacheVars, feedVars, authVars>>

EvaluateNext == EvaluateRuns \/ AlertsRoute

EvaluateSpec == EvaluateInit /\ [][EvaluateNext]_vars

\* ---------------------------------------------------------------- claims

\* the requests answered in the latest step
Responded == {c \in Callers : out.resp[c].got}

WaitingOn(r) == {c \in Callers : callers[c].pc = "waiting" /\ callers[c].via = r}

\* the slot is Fresh: it holds a snapshot younger than the TTL
FreshNow ==
    /\ memoryCache.data # Null
    /\ clock - memoryCache.lastFetchBaseMs < CACHE_TTL

\* C1: in every reachable state at most one refresh block is in flight, and
\* one is in flight only while isFetching is true and fetchPromise is its
\* promise, so getFreshData() never starts a second one, whatever the number
\* of callers and their interleaving.
C1_AtMostOneRefreshInFlight ==
    /\ Cardinality(InFlight) <= 1
    /\ InFlight # {} => isFetching /\ fetchPromise \in InFlight

\* a refresh in flight with two requests waiting on it
C1_Witness ==
    \E r \in InFlight : Cardinality(WaitingOn(r)) >= 2

\* C2 as stated: a refresh that settles has run exactly one aggregator cycle,
\* and all requests that waited on it get the same entry or the same error.
C2_ExactlyOneCycle ==
    out.r # 0 =>
        /\ out.aggCalls = 1
        /\ \A c, d \in Responded : out.resp[c] = out.resp[d]

\* C2 amended: all requests suspended in getFreshData() at one time wait on
\* the one refresh block in flight; a block runs at most one aggregator cycle,
\* and exactly one unless it adopts the persisted copy (then none); when it
\* settles, all requests that waited on it get the same entry or the same
\* error, and none is left waiting.
C2_OneCycleUnlessAdopted ==
    /\ \A c, d \in Callers :
           callers[c].pc = "waiting" /\ callers[d].pc = "waiting"
               => callers[c].via = callers[d].via
    /\ \A c \in Callers : callers[c].pc = "waiting" => callers[c].via \in InFlight
    /\ \A r \in InFlight : ref[r].aggCalls <= 1
    /\ out.r # 0 =>
           /\ out.aggCalls <= 1
           /\ out.aggCalls = 0 <=> out.outcome = "adopted"
           /\ \A c, d \in Responded : out.resp[c] = out.resp[d]

\* two requests coalesced on one refresh that ran one cycle, both answered
C2_Witness ==
    /\ out.r # 0
    /\ out.aggCalls = 1
    /\ Cardinality(Responded) >= 2

\* C3: while the slot is Fresh no refresh is in flight, and a getFreshData()
\* call made then (with no invalidation in the same handler) returns at once
\* with the current entry and no error, starts no refresh block, issues no
\* upstream or store call and leaves the cache as it is; so two such calls
\* within the TTL window return the same entry.
C3_FreshHit ==
    /\ [](FreshNow => InFlight = {} /\ ~isFetching)
    /\ [][\A c \in Callers :
            (FreshNow /\ out'.get = c /\ memoryCache' = memoryCache) =>
                /\ out'.hit
                /\ out'.resp[c] = [got |-> TRUE, ret |-> memoryCache.id, err |-> 0]
                /\ callers'[c].pc = "idle"
                /\ UNCHANGED <<ref, isFetching, fetchPromise, pendingPut, memoryCache>>]_vars

\* a request served from the entry some time after the request that installed it
C3_Witness ==
    /\ FreshNow
    /\ out.hit
    /\ out.get \in Responded
    /\ out.resp[out.get].ret = memoryCache.id
    /\ clock > memoryCache.lastFetchBaseMs

\* C4: when a refresh that was started on a snapshot stale by age fails and
\* falls back, every request waiting on it is answered without error with the
\* entry that was current when the refresh started, its data, evaluation,
\* history and lastFetchBaseMs as they were produced.
C4_StaleOnError ==
    (out.outcome = "fallback" /\ ~out.forced) =>
        /\ memoryCache.id = out.start
        /\ memoryCache = born
        /\ \A c \in Responded : out.resp[c].err = 0 /\ out.resp[c].ret = out.start

\* C5: a request is answered with an error only by the settlement of a refresh
\* that failed while fetching from upstream with no snapshot in memoryCache,
\* and then every request that waited on that refresh gets the same error;
\* with a snapshot in memoryCache no request is answered with an error.
C5_FailsOnlyWithoutSnapshot ==
    /\ out.r # 0 => WaitingOn(out.r) = {}
    /\ \A c \in Responded :
           out.resp[c].err # 0 =>
               /\ out.r # 0
               /\ out.stage = "noaa"
               /\ out.outcome = "error"
               /\ memoryCache.data = Null
               /\ \A d \in Responded : out.resp[d].err = out.resp[c].err

\* two requests failed with the same error
C5_Witness ==
    \E c, d \in Responded :
        /\ c # d
        /\ out.resp[c].err # 0
        /\ out.resp[d].err = out.resp[c].err

C7_NextGetAfterInvalidationIsAMiss ==
    (out.get # 0 /\ out.sawInv) => ~out.hit

\* C8: when a refresh started on an invalidated snapshot does not install a
\* new entry, every request waiting on it is answered without error with the
\* entry that was invalidated, its data, evaluation and history as produced.
C8_InvalidationKeepsSnapshot ==
    (out.r # 0 /\ out.forced /\ out.outcome # "installed") =>
        /\ memoryCache.id = out.start
        /\ memoryCache.data # Null
        /\ memoryCache.data = born.data
        /\ memoryCache.evaluation = born.evaluation
        /\ memoryCache.history = born.history
        /\ WaitingOn(out.r) = {}
        /\ Responded # {}
        /\ \A c \in Responded : out.resp[c].err = 0 /\ out.resp[c].ret = out.start

\* a forced refresh failed and a request got the invalidated snapshot back
C8_Witness ==
    /\ out.forced
    /\ out.outcome = "fallback"
    /\ \E c \in Responded : out.resp[c].ret = memoryCache.id /\ out.resp[c].err = 0

\* C9: no field of an entry that holds a snapshot (every such entry has been
\* returned by getFreshData()) is changed by any step.
C9_EntriesImmutable ==
    [][(memoryCache.data # Null /\ memoryCache'.id = memoryCache.id)
          => memoryCache' = memoryCache]_vars

\* C10: in every reachable state memoryCache is either the empty entry or a
\* complete one: data, evaluation and history of the same refresh, and
\* lastFetchBaseMs that refresh's completion time (not before its start)
\* unless an invalidation has zeroed it; never part of one refresh's result
\* with part of another's.
EntryComplete(e, b) ==
    /\ e.id = b.id
    /\ \/ e.data = Null /\ e.evaluation = Null /\ e.history = Null
       \/ /\ e.data # Null /\ e.evaluation # Null /\ e.history # Null
          /\ e.evaluation[1].of = e.data[1].cycle
          /\ e.evaluation[1].reading = e.data[1].reading
          /\ e.history[1].cycle = e.data[1].cycle
          /\ e.lastFetchBaseMs \in {b.lastFetchBaseMs, 0}
          /\ b.lastFetchBaseMs >= e.data[1].extraction_time

C10_InstallIsAtomic == EntryComplete(memoryCache, born)

\* a complete entry has been replaced by the complete entry of a later refresh
C10_Witness ==
    /\ out.outcome = "installed"
    /\ out.start # 0
    /\ memoryCache.id = out.r
    /\ memoryCache.data[1].cycle = out.r

\* C11: a getFreshData() call is a cache hit exactly when the entry it sees
\* holds a snapshot and now - lastFetchBaseMs < CACHE_TTL, so an entry aged
\* exactly the TTL is a miss; and a persisted copy is adopted only when
\* now - lastFetchBaseMs < CACHE_TTL for the copy, now being the time
\* getFreshData() was called, and never when that difference is the TTL or more.
C11_FreshIffYoungerThanTTL ==
    /\ [][\A c \in Callers :
            out'.get = c =>
                (out'.hit <=> /\ memoryCache'.data # Null
                              /\ clock - memoryCache'.lastFetchBaseMs < CACHE_TTL)]_vars
    /\ [][\A r \in DOMAIN ref :
            (ref[r].pc = "blobJson" /\ ref'[r] # ref[r]) =>
                /\ out'.outcome = "adopted" =>
                       /\ ref[r].body # Null
                       /\ ref[r].now - ref[r].body[1].lastFetchBaseMs < CACHE_TTL
                /\ (/\ ref[r].body # Null
                    /\ ref[r].now - ref[r].body[1].lastFetchBaseMs >= CACHE_TTL) =>
                       ref'[r].pc = "noaa"]_vars

\* a request has just missed on a snapshot aged exactly the TTL
C11_Witness ==
    /\ out.get # 0
    /\ ~out.hit
    /\ memoryCache.data # Null
    /\ clock - memoryCache.lastFetchBaseMs = CACHE_TTL

\* C12: a refresh started with no snapshot in memory and the blob token set
\* first reads the store; when it adopts the copy, the copy was within the TTL
\* at the time of the call, memoryCache is a new object with the copy's fields,
\* every waiting request gets it without error and extractor.fetchAll() was
\* not called; when the store holds no copy, or the copy read is not within
\* the TTL, the refresh goes on to the upstream fetch.
C12_ColdStartRecovery ==
    /\ [](out.outcome = "adopted" =>
            /\ blobToken
            /\ out.start = 0
            /\ out.aggCalls = 0
            /\ memoryCache.id = out.r
            /\ memoryCache.data # Null
            /\ memoryCache.data[1].cycle # out.r
            /\ Responded # {}
            /\ \A c \in Responded :
                   out.resp[c] = [got |-> TRUE, ret |-> memoryCache.id, err |-> 0])
    /\ [][\A r \in DOMAIN ref' :
            /\ (r \notin DOMAIN ref) =>
                   (ref'[r].pc = "blobList" <=> (memoryCache'.data = Null /\ blobToken))
            /\ (r \in DOMAIN ref /\ ref[r].pc = "blobJson" /\ out'.outcome = "adopted") =>
                   /\ ref[r].body # Null
                   /\ ref[r].now - ref[r].body[1].lastFetchBaseMs < CACHE_TTL
                   /\ ToJSON(memoryCache') = ref[r].body[1]
            /\ (/\ r \in DOMAIN ref
                /\ ref'[r] # ref[r]
                /\ \/ ref[r].pc = "blobList" /\ blob = Null
                   \/ ref[r].pc = "blobJson" /\ ref[r].body = Null
                   \/ /\ ref[r].pc = "blobJson" /\ ref[r].body # Null
                      /\ ref[r].now - ref[r].body[1].lastFetchBaseMs >= CACHE_TTL) =>
                   /\ ref'[r].pc = "noaa"
                   /\ ref'[r].aggCalls = 1
                   /\ ref'[r].fa = "pending"]_vars

\* two requests of a cold start answered with the adopted copy
C12_Witness ==
    /\ out.outcome = "adopted"
    /\ Cardinality(Responded) >= 2
    /\ memoryCache.data[1].cycle = 0

\* C13: a refresh never settles with an error or a fallback while it reads the
\* store: every step of the recovery either moves on in the recovery, adopts
\* the copy, or starts the upstream fetch of the same refresh with the same
\* requests still waiting on it, and answers no request with an error.
C13_RecoveryIsAdvisory ==
    /\ [](out.outcome \in {"error", "fallback"} => out.stage = "noaa")
    /\ [][\A r \in DOMAIN ref :
            (ref[r].pc \in {"blobList", "blobFetch", "blobJson"} /\ ref'[r] # ref[r]) =>
                /\ \A c \in Callers : out'.resp[c].err = 0
                /\ \/ ref'[r].pc = "settled" /\ out'.outcome = "adopted"
                   \/ /\ ref'[r].pc \in {"blobFetch", "blobJson", "noaa"}
                      /\ isFetching' /\ fetchPromise' = r
                      /\ \A c \in Callers : callers[c].pc = "waiting" /\ callers[c].via = r
                                               => callers'[c] = callers[c]]_vars

\* The first refresh of a cold start installed an upstream snapshot although
\* the store held, all along, a copy within the TTL: the recovery failed and
\* the refresh went on.
C13_Witness ==
    /\ out.outcome = "installed"
    /\ out.r = 1
    /\ out.start = 0
    /\ blob # Null
    /\ blob[1].data[1].cycle = 0
    /\ clock - blob[1].lastFetchBaseMs < CACHE_TTL
    /\ Responded # {}


\* ---- claims about fetchAll() (FetchAllSpec)

Fulfilled == {f \in Feeds : results[f].status = "fulfilled"}
Rejected == {f \in Feeds : results[f].status = "rejected"}

\* the entries of an errors list that name feed f
EntriesOf(errors, f) == {i \in DOMAIN errors : errors[i].feed = FeedNames[f]}

\* C14: fetchAll() issues every retrieval before any of them settles, resumes
\* exactly when the last one has settled, and then resolves with a snapshot that
\* holds, for every feed retrieved, the readings extracted from its payload,
\* whatever happened to the other feeds; it rejects only when the extraction
\* throws on the payload of a feed that was retrieved, never because a
\* retrieval failed or timed out.
C14_AssembledAfterAllSettled ==
    /\ fetchAllPc # "idle" =>
           \A f \in Feeds : client[f].attempts = 1 /\ client[f].pc # "none"
    /\ fetchAllPc = "awaiting" => Fulfilled \cup Rejected # Feeds
    /\ fetchAllPc \in {"resolved", "rejected"} => Fulfilled \cup Rejected = Feeds
    /\ fetchAllPc = "resolved" =>
           /\ fetchAllRet # Null
           /\ \A f \in Fulfilled : \A k \in ReadingKeys(f) :
                  fetchAllRet[1].data[k] = Extract(f, results[f].value).val[k]
           /\ (1 \in Fulfilled /\ results[1].value = Some(<<MagHeader, MagRow("t1", "5.0")>>))
                  => /\ fetchAllRet[1].data["solar_wind_mag"] # Null
                     /\ fetchAllRet[1].data["solar_wind_mag"][1].bz_gsm = "5"
    /\ fetchAllPc = "rejected" =>
           \E f \in Fulfilled : Extract(f, results[f].value).throws

\* a snapshot with a reading of one feed although another feed timed out
C14_Witness ==
    /\ fetchAllPc = "resolved"
    /\ \E f \in Rejected : results[f].reason = "aborted"
    /\ 1 \in Fulfilled
    /\ fetchAllRet[1].data["solar_wind_mag"] # Null

\* C15: when fetchAll() resolves, its errors list holds exactly one entry,
\* with the feed's name and the error's message, for every feed whose retrieval
\* failed, none for a feed whose retrieval succeeded and nothing else, and every
\* reading of a failed feed is null.
C15_FailuresReportedAsData ==
    fetchAllPc = "resolved" =>
        LET errors == fetchAllRet[1].errors
        IN  /\ \A f \in Feeds :
                   Cardinality(EntriesOf(errors, f)) = IF f \in Rejected THEN 1 ELSE 0
            /\ \A i \in DOMAIN errors :
                   \E f \in Rejected :
                       errors[i] = [feed |-> FeedNames[f], error |-> results[f].reason]
            /\ Len(errors) = Cardinality(Rejected)
            /\ \A f \in Rejected : \A k \in ReadingKeys(f) : fetchAllRet[1].data[k] = Null

\* the feed with two readings failed, and the list names it once
C15_Witness ==
    /\ fetchAllPc = "resolved"
    /\ Rejected = {5}
    /\ Len(fetchAllRet[1].errors) = 1
    /\ fetchAllRet[1].errors[1].feed = "X-Ray Flux"

\* the elements of payload v that hold a valid value for data field k
ValidFor(k, v) ==
    IF v = Null THEN {}
    ELSE CASE k = "solar_wind_mag" -> {i \in 2..Len(v[1]) : CellPresent(v[1][i], 3)}
           [] k = "solar_wind_plasma" -> {i \in 2..Len(v[1]) : CellPresent(v[1][i], 2)}
           [] k = "kp_index_official" -> {i \in 2..Len(v[1]) : CellPresent(v[1][i], 3)}
           [] k = "kp_index_1m" ->
                {i \in 1..Len(v[1]) : v[1][i] # Null /\ v[1][i][1].kp_index \notin {"null", ""}}
           [] k = "f107_flux" ->
                {i \in 1..Len(v[1]) : v[1][i] # Null /\ v[1][i][1].flux \notin {"null", ""}}
           [] k = "aurora_power" ->
                {i \in 1..Len(v[1]) :
                    /\ ~v[1][i].comment
                    /\ v[1][i].tokens # <<>>
                    /\ v[1][i].tokens[Len(v[1][i].tokens)] \in Numeric}
           [] OTHER ->
                LET label == CASE k = "xray_flux" -> "0.1-0.8nm"
                               [] k = "xray_flux_short" -> "0.05-0.4nm"
                               [] k = "proton_flux" -> ">=10 MeV"
                               [] k = "proton_flux_50" -> ">=50 MeV"
                               [] k = "proton_flux_100" -> ">=100 MeV"
                               [] k = "electron_flux" -> ">=2 MeV"
                               [] k = "electron_flux_08" -> "865 keV"
                IN  {i \in 1..Len(v[1]) :
                        /\ v[1][i] # Null
                        /\ v[1][i][1].energy = label
                        /\ v[1][i][1].flux # "null"}

\* the data fields built from the last row or record whether it is valid or not
TakesLastElement ==
    {"solar_wind_mag", "solar_wind_plasma", "kp_index_official", "f107_flux"}

\* payload v has a data row (a table) or a record (F10.7) to take
HasLastElement(k, v) ==
    /\ v # Null
    /\ Len(v[1]) >= (IF k = "f107_flux" THEN 1 ELSE 2)

C17_ZeroFeedsIsASnapshot ==
    Rejected = Feeds =>
        /\ fetchAllPc = "resolved"
        /\ fetchAllRet # Null
        /\ \A k \in DOMAIN fetchAllRet[1].data : fetchAllRet[1].data[k] = Null
        /\ Len(fetchAllRet[1].errors) = Cardinality(Feeds)
        /\ {fetchAllRet[1].errors[i].feed : i \in DOMAIN fetchAllRet[1].errors}
               = {FeedNames[f] : f \in Feeds}

\* every retrieval failed, not all for the same reason
C17_Witness ==
    /\ Rejected = Feeds
    /\ fetchAllPc = "resolved"
    /\ Cardinality({results[f].reason : f \in Feeds}) >= 2

\* C18: a timer is armed exactly while its fetchJSON/fetchText call is pending;
\* once the call has settled, by any exit, clearTimeout has run, so no timer
\* is armed when fetchAll() has settled.
C18_TimerReleased ==
    /\ \A f \in Feeds :
           /\ client[f].pc = "none" => client[f].timeout = "none"
           /\ client[f].pc \in {"fetch", "body"} =>
                  client[f].timeout = "armed" /\ results[f].status = "pending"
           /\ client[f].pc = "done" =>
                  client[f].timeout = "cleared" /\ results[f].status # "pending"
    /\ fetchAllPc \in {"resolved", "rejected"} =>
           \A f \in Feeds : client[f].timeout # "armed"

\* calls that left by a timeout abort, by a body-parse error and by success
C18_Witness ==
    /\ \A f \in Feeds : client[f].pc = "done" /\ client[f].timeout = "cleared"
    /\ {"aborted", "invalid json", "none"} \subseteq {results[f].reason : f \in Feeds}

\* C19: every feed is attempted once per fetchAll() call and never again: a
\* failed retrieval stays failed, its client is not called a second time, and
\* its readings are null in the snapshot.
C19_SingleAttempt ==
    /\ [](/\ \A f \in Feeds : client[f].attempts <= 1
          /\ fetchAllPc # "idle" => \A f \in Feeds : client[f].attempts = 1
          /\ fetchAllPc = "resolved" =>
                 \A f \in Rejected : \A k \in ReadingKeys(f) :
                     fetchAllRet[1].data[k] = Null)
    /\ [][\A f \in Rejected : results'[f] = results[f] /\ client'[f] = client[f]]_vars

\* a cycle completed in which two feeds failed on their only attempt
C19_Witness ==
    /\ fetchAllPc = "resolved"
    /\ \A f \in Feeds : client[f].attempts = 1
    /\ {"HTTP 503", "ECONNRESET"} \subseteq {results[f].reason : f \in Rejected}


\* C20: a refresh that has started eventually settles and clears isFetching,
\* so that every request waiting on it is eventually answered, whether it
\* started with the upstream fetch or with the read of the store.
C20_EveryRefreshTerminates ==
    /\ isFetching ~> ~isFetching
    /\ \A c \in Callers : (callers[c].pc = "waiting") ~> (callers[c].pc = "idle")


C30_StoreReadOnlyWhenEmpty ==
    /\ [](\A r \in DOMAIN ref :
            ref[r].pc \in {"blobList", "blobFetch", "blobJson"} =>
                /\ memoryCache.data = Null
                /\ blobToken
                /\ ref[r].aggCalls = 0
                /\ ref[r].fa = "none" /\ ref[r].fh = "none")
    /\ [][\A r \in DOMAIN ref' :
            /\ (r \notin DOMAIN ref /\ memoryCache'.data # Null) => ref'[r].pc = "noaa"
            /\ (r \in DOMAIN ref /\ ref[r].pc = "noaa") => ref'[r].pc \in {"noaa", "settled"}
            /\ (r \in DOMAIN ref /\ ref[r].pc = "settled") => ref'[r].pc = "settled"]_vars

\* the token is set, the store holds a copy, and a refresh started on a stale
\* snapshot is fetching from upstream
C30_Witness ==
    /\ blobToken
    /\ blob # Null
    /\ memoryCache.data # Null
    /\ \E r \in InFlight : ref[r].pc = "noaa" /\ ref[r].start # 0


\* the call has returned (not thrown)
Returned(fn) == scan.fn = fn /\ scan.pc = "returned"

\* the positions (from 1) of the last max elements of an array of n, from first on
Window(n, max, first) == {i \in first..n : i > n - max}

\* the designated cell of a row of the two-column table
CellOf(row) == IF Len(row) >= 2 THEN row[2] ELSE "undefined"

\* the data rows getLastValidRow may look at
RowWindow == Window(Len(scan.arr[1]), scan.max, 2)

\* C21: getLastValidRow called on a table of at least 2 rows whose designated
\* column is null in every data row among the last maxSteps rows returns the
\* final row of the table, not null, whatever the rows further back hold.
C21_FallbackToFinalRow ==
    (/\ Returned("getLastValidRow")
     /\ scan.arr # Null
     /\ Len(scan.arr[1]) >= 2
     /\ \A i \in RowWindow : CellOf(scan.arr[1][i]) = "null") =>
        /\ scan.ret # Null
        /\ scan.ret = Some(scan.arr[1][Len(scan.arr[1])])

\* the default of 5 rows: the fallback taken although a row before the window
\* holds a number
C21_Witness ==
    /\ Returned("getLastValidRow")
    /\ scan.arr # Null
    /\ scan.max = 5
    /\ \A i \in RowWindow : CellOf(scan.arr[1][i]) = "null"
    /\ \E j \in 2..Len(scan.arr[1]) : j \notin RowWindow /\ CellOf(scan.arr[1][j]) = "5.0"
    /\ scan.ret = Some(<<Tag(Len(scan.arr[1]) - 1), "null">>)

\* C22: getLastValidRow called on a missing table, an empty one or one that
\* holds only its header returns null; the header row is never returned.
C22_NoDataRowsNoResult ==
    Returned("getLastValidRow") =>
        /\ (scan.arr = Null \/ Len(scan.arr[1]) < 2) => scan.ret = Null
        /\ scan.ret # Some(ScanHeader)

\* the call on a table that holds only its header has returned null
C22_Witness ==
    /\ Returned("getLastValidRow")
    /\ scan.arr = Some(<<ScanHeader>>)
    /\ scan.ret = Null

\* the largest member of a non-empty set of positions
Latest(S) == CHOOSE x \in S : \A y \in S : y <= x

\* the data rows of the window whose designated cell is present and non-empty
PresentRows == {i \in RowWindow : CellOf(scan.arr[1][i]) \notin {"null", "", "undefined"}}

\* C25: getLastValidRow called on a table of at least 2 rows returns a row
\* among the last maxSteps rows and never the header; when one of these rows
\* has its designated cell present and non-empty (the number 0 included), it
\* returns the latest such row.
C25_LatestPresentRowInWindow ==
    (Returned("getLastValidRow") /\ scan.arr # Null /\ Len(scan.arr[1]) >= 2) =>
        /\ \E i \in RowWindow : scan.ret = Some(scan.arr[1][i])
        /\ scan.ret # Some(scan.arr[1][1])
        /\ PresentRows # {} => scan.ret = Some(scan.arr[1][Latest(PresentRows)])
        /\ \A i \in RowWindow : CellOf(scan.arr[1][i]) = "0" => i \in PresentRows

\* [["time_tag","bz_gsm"],["1",5.0],["2",null],["3",null]], column 1, 5 steps: row "1"
C25_Witness ==
    /\ Returned("getLastValidRow")
    /\ scan.arr = Some(<<ScanHeader, <<"1", "5.0">>, <<"2", "null">>, <<"3", "null">>>>)
    /\ scan.max = 5
    /\ scan.ret = Some(<<"1", "5.0">>)

\* the records getLastValidByEnergy may look at
BandWindow == Window(Len(scan.arr[1]), scan.max * 10, 1)

\* the positions of the records of the requested channel with a non-null flux
Matching(S) ==
    {i \in S : /\ scan.arr[1][i] # Null
               /\ scan.arr[1][i][1].energy = scan.key
               /\ scan.arr[1][i][1].flux # "null"}

\* C23: what getLastValidByEnergy returns is null or a record of the array
\* whose energy is the requested label and whose flux is not null.
C23_OnlyRequestedChannel ==
    (Returned("getLastValidByEnergy") /\ scan.ret # Null) =>
        /\ scan.ret[1].energy = scan.key
        /\ scan.ret[1].flux # "null"
        /\ \E i \in 1..Len(scan.arr[1]) : scan.ret = scan.arr[1][i]

\* a record of channel A returned from an array that ends with a record of
\* channel B whose flux is a number
C23_Witness ==
    /\ Returned("getLastValidByEnergy")
    /\ scan.key = "A"
    /\ scan.arr # Null
    /\ Len(scan.arr[1]) >= 2
    /\ scan.arr[1][Len(scan.arr[1])] = Item(Tag(Len(scan.arr[1])), "B", "3.0")
    /\ scan.ret # Null
    /\ scan.ret[1].energy = "A"

\* C26: getLastValidByEnergy returns the latest record among the last
\* maxMinutes * 10 records whose energy is the requested label and whose flux
\* is not null, and null when there is none among them, whatever the records
\* before them hold.
C26_LatestMatchInWindow ==
    Returned("getLastValidByEnergy") =>
        scan.ret = IF scan.arr = Null \/ Matching(BandWindow) = {} THEN Null
                   ELSE scan.arr[1][Latest(Matching(BandWindow))]

\* the default of 5 minutes: null returned although a record more than 50
\* records back matches
C26_Witness ==
    /\ Returned("getLastValidByEnergy")
    /\ scan.max = 5
    /\ scan.arr # Null
    /\ Matching(1..Len(scan.arr[1])) # {}
    /\ Matching(BandWindow) = {}
    /\ scan.ret = Null

\* the records getLastValidObject may look at
ObjectWindow == Window(Len(scan.arr[1]), scan.max, 1)

\* the positions of the records whose field is present, non-null and non-empty
WithField(S) ==
    {i \in S : /\ scan.arr[1][i] # Null
               /\ scan.key \in DOMAIN scan.arr[1][i][1]
               /\ scan.arr[1][i][1][scan.key] \notin {"null", ""}}

\* C27: getLastValidObject called without a filter returns the latest record
\* among the last maxSteps records whose field is present, non-null and
\* non-empty, and null when the array is missing or empty or none of these
\* records qualifies; it has no fallback.
C27_LatestObjectInWindow ==
    Returned("getLastValidObject") =>
        scan.ret = IF scan.arr = Null \/ WithField(ObjectWindow) = {} THEN Null
                   ELSE scan.arr[1][Latest(WithField(ObjectWindow))]

\* the default of 10 records: null returned although a record before the
\* window qualifies
C27_Witness ==
    /\ Returned("getLastValidObject")
    /\ scan.max = 10
    /\ scan.arr # Null
    /\ WithField(1..Len(scan.arr[1])) # {}
    /\ WithField(ObjectWindow) = {}
    /\ scan.ret = Null

\* isNaN(parseFloat(x)) is false
ReadsAsNumber(x) == ParseFloat(x) # "NaN"

\* the positions of the lines that are neither blank nor comments and whose
\* last token reads as a number
ParsableLines(text) ==
    {i \in 1..Len(text) :
        /\ ~text[i].comment
        /\ text[i].tokens # <<>>
        /\ ReadsAsNumber(text[i].tokens[Len(text[i].tokens)])}

\* C28: parseAuroraText returns, for the latest line that is neither blank nor
\* a comment (a line that starts with '#') and whose last token reads as a
\* number, that number (34 in every such line here) and the text of the line
\* without the white space around it; it returns null when there is no such line,
\* so for every text made of comment lines and blank lines only.
C28_LatestParsableLine ==
    Returned("parseAuroraText") =>
        /\ scan.ret = IF ParsableLines(scan.arr) = {} THEN Null
                      ELSE Some([value |-> "34",
                                 line |-> [scan.arr[Latest(ParsableLines(scan.arr))]
                                             EXCEPT !.indent = FALSE]])
        /\ (\A i \in 1..Len(scan.arr) :
               scan.arr[i].comment \/ scan.arr[i].tokens = <<>>) => scan.ret = Null

\* a reading followed by a line without a number and by a comment that ends
\* with a number: the reading is returned
C28_Witness ==
    /\ Returned("parseAuroraText")
    /\ scan.arr = <<ScanLine(1, "reading"), ScanLine(2, "junk"), ScanLine(3, "comment")>>
    /\ scan.ret = Some([value |-> "34", line |-> ScanLine(1, "reading")])

\* C29: no helper returns an element whose deciding value does not read as a
\* number when its window holds one whose value does (getLastValidRow may
\* still fall back to the final row when the window holds none), a record
\* returned by getLastValidObject has a field that reads as a number, so has
\* the line returned by parseAuroraText, and a helper throws only on an array
\* with a null element.
C29_NonNumericIsInvalid ==
    /\ (/\ Returned("getLastValidRow")
        /\ scan.ret # Null
        /\ ~ReadsAsNumber(CellOf(scan.ret[1]))) =>
            \A i \in RowWindow : ~ReadsAsNumber(CellOf(scan.arr[1][i]))
    /\ (Returned("getLastValidObject") /\ scan.ret # Null) =>
            ReadsAsNumber(scan.ret[1][scan.key])
    /\ (Returned("parseAuroraText") /\ scan.ret # Null) =>
            ReadsAsNumber(scan.ret[1].line.tokens[Len(scan.ret[1].line.tokens)])
    /\ scan.pc = "threw" => \E i \in 1..Len(scan.arr[1]) : scan.arr[1][i] = Null

\* C31: a put() is started only in the step in which a refresh that fetched
\* from upstream installs its entry, with that entry as its body (so never on
\* a hit, an adoption or a fallback); the requests waiting on the refresh are
\* answered in that same step, while the put() is still pending; and the step
\* in which a put() settles, however it settles, answers no request and leaves
\* memoryCache, isFetching, fetchPromise and the refresh blocks as they are.
C31_SaveIsOpportunistic ==
    [][/\ pendingPut' \subseteq pendingPut \cup {ToJSON(memoryCache')}
       /\ ~(pendingPut' \subseteq pendingPut) =>
             /\ blobToken
             /\ out'.outcome = "installed"
             /\ out'.aggCalls = 1
             /\ memoryCache'.id = out'.r
       /\ (out'.outcome = "installed" /\ blobToken) =>
             /\ ToJSON(memoryCache') \in pendingPut'
             /\ \A c \in Callers :
                   (callers[c].pc = "waiting" /\ callers[c].via = out'.r) =>
                       out'.resp[c] = [got |-> TRUE, ret |-> memoryCache'.id, err |-> 0]
       /\ (pendingPut' \subseteq pendingPut /\ pendingPut' # pendingPut) =>
             /\ UNCHANGED <<memoryCache, isFetching, fetchPromise, ref, callers>>
             /\ \A c \in Callers : ~out'.resp[c].got]_vars

\* a request served from memory while the save of the entry is still pending
C31_Witness ==
    /\ out.hit
    /\ Responded # {}
    /\ ToJSON(memoryCache) \in pendingPut

\* C32: every request that getFreshData() answers without an error is given
\* the current entry, whose data is not null, whether on a hit, after waiting,
\* on adoption of the persisted copy, on install or on fallback; and
\* memoryCache.data, once not null, stays not null.
C32_AlwaysASnapshot ==
    /\ [](\A c \in Callers :
            (out.resp[c].got /\ out.resp[c].err = 0) =>
                /\ out.resp[c].ret = memoryCache.id
                /\ memoryCache.data # Null
                /\ out.hit \/ out.outcome \in {"adopted", "installed", "fallback"})
    /\ [][memoryCache.data # Null => memoryCache'.data # Null]_vars

\* two requests that waited on a refresh which adopted the persisted copy
C32_Witness ==
    /\ out.outcome = "adopted"
    /\ Cardinality(Responded) >= 2
    /\ memoryCache.data # Null

\* C34: a refresh block that reaches step 4 has called fetchAll() and
\* fetchRawHistory() once each, both before either settles; a step of that
\* block replaces memoryCache only when it settles the block with both promises
\* resolved and evaluate() returned, installing the result, its evaluation and
\* the history together; every other step of the block, in particular the one
\* in which any of the three fails, leaves memoryCache as it is.
C34_InstallOnlyWhenAllThreeSucceed ==
    /\ [](\A r \in DOMAIN ref :
            ref[r].pc = "noaa" =>
                /\ ref[r].aggCalls = 1
                /\ ref[r].fa \in {"pending", "ok"}
                /\ ref[r].fh \in {"pending", "ok"})
    /\ [][\A r \in DOMAIN ref' :
            /\ (ref'[r].pc = "noaa" /\ (r \notin DOMAIN ref \/ ref[r].pc # "noaa")) =>
                  ref'[r].fa = "pending" /\ ref'[r].fh = "pending"
            /\ (r \in DOMAIN ref /\ ref[r].pc = "noaa" /\ ref'[r] # ref[r]) =>
                  IF out'.r = r /\ out'.cause = "none"
                  THEN /\ out'.outcome = "installed"
                       /\ {ref[r].fa, ref[r].fh} = {"ok", "pending"}
                       /\ memoryCache'.id = r
                       /\ memoryCache'.data # Null
                       /\ ~EvaluateThrows(memoryCache'.data[1])
                       /\ memoryCache'.evaluation = Some(Evaluate(memoryCache'.data[1]))
                       /\ memoryCache'.history = Some(HistoryResult(r))
                       /\ memoryCache'.lastFetchBaseMs = clock
                  ELSE /\ memoryCache' = memoryCache
                       /\ out'.r = r => out'.outcome \in {"fallback", "error"}]_vars

\* evaluate() threw after both promises had resolved: the previous entry is kept
C34_Witness ==
    /\ out.outcome = "fallback"
    /\ out.cause = "evaluate"
    /\ memoryCache.id = out.start

\* the current entry is the snapshot of a cycle in which every retrieval failed
Sparse == memoryCache.data # Null /\ memoryCache.data[1].reading = "absent"

\* C33: a refresh falls back only when fetchAll() or fetchRawHistory() rejected
\* or evaluate() threw, and a refresh that reached step 4 and met none of
\* these installs its result; in particular the snapshot of a cycle in which
\* every retrieval failed is installed as the current entry, Fresh, and given
\* to the waiting requests; while it is Fresh a getFreshData() call is a hit
\* that returns it, and once it is no longer Fresh a call is not a hit.
C33_OutageSnapshotIsInstalled ==
    /\ [](/\ out.outcome \in {"fallback", "error"} => out.cause # "none"
          /\ (out.r # 0 /\ out.stage = "noaa" /\ out.cause = "none") =>
                out.outcome = "installed"
          /\ (out.outcome = "installed" /\ Sparse) =>
                /\ memoryCache.id = out.r
                /\ FreshNow
                /\ memoryCache.evaluation # Null
                /\ \A c \in Responded :
                      out.resp[c] = [got |-> TRUE, ret |-> memoryCache.id, err |-> 0])
    /\ [][\A c \in Callers :
            (Sparse /\ out'.get = c /\ memoryCache' = memoryCache) =>
                IF FreshNow
                THEN /\ out'.hit
                     /\ out'.resp[c] = [got |-> TRUE, ret |-> memoryCache.id, err |-> 0]
                ELSE ~out'.hit /\ ~out'.resp[c].got]_vars

\* the snapshot of an outage has replaced an earlier entry that had grown
\* stale, and the waiting request was given it
C33_Witness ==
    /\ out.outcome = "installed"
    /\ Sparse
    /\ out.start # 0
    /\ ~out.forced
    /\ Responded # {}


\* ---- claims about evaluate() (EvaluateSpec)

\* evaluate() has returned an evaluation
Evaluated == scan.fn = "evaluate" /\ scan.pc \in {"returned", "answered"}

\* the level of the severity with this label
LevelOf(label) ==
    (CHOOSE s \in {SEV[k] : k \in DOMAIN SEV} : s.label = label).level

\* C35: the alerts evaluate() returns are in order of non-increasing severity
\* level; the highest_severity /api/alerts reports is the label of the highest
\* level among them, and it is NOMINAL exactly when there is no alert
C35_AlertsOrderedHighestFirst ==
    /\ Evaluated =>
          LET a == scan.ret.alerts
          IN  \A i, j \in 1..Len(a) :
                  i < j => a[i].severity.level >= a[j].severity.level
    /\ (scan.fn = "evaluate" /\ scan.pc = "answered") =>
          LET a == scan.ret.alerts
              top == scan.res[1].highest_severity
          IN  /\ \A i \in 1..Len(a) : a[i].severity.level <= LevelOf(top)
              /\ Len(a) > 0 => \E i \in 1..Len(a) : a[i].severity.label = top
              /\ (top = "NOMINAL") <=> (Len(a) = 0)

\* /api/alerts answered CRITICAL: the x-ray alert, pushed after the WARNING of
\* the Kp index, comes first of four or more
C35_Witness ==
    /\ scan.fn = "evaluate" /\ scan.pc = "answered"
    /\ Len(scan.ret.alerts) >= 4
    /\ scan.ret.alerts[1].id = "RADIO_BLACKOUT"
    /\ scan.ret.alerts[2].id = "GEOMAG_STORM_ACTIVE"
    /\ scan.ret.alerts[2].severity = SEV.WARNING
    /\ scan.res[1].highest_severity = "CRITICAL"

\* the readings metric m is computed from
ReadingsOf(m, extracted) ==
    CASE m = "solar_wind" -> {extracted.solar_wind_mag, extracted.solar_wind_plasma}
      [] m = "kp_index"   -> {extracted.kp_index_1m}
      [] OTHER            -> {extracted[m]}

\* C36: in what evaluate() returns, a metric has an alert iff its status is not
\* NOMINAL, so there are as many alerts as metrics that are not NOMINAL; a
\* metric with a reading that is null or undefined is NOMINAL and has no alert
C36_AlertIffNotNominal ==
    Evaluated =>
        LET a == scan.ret.alerts
            st(m) == scan.ret.metrics[m].status
            Alerts(m) == {i \in 1..Len(a) : a[i].id = AlertId(m)}
        IN  /\ \A m \in MetricNames :
                  /\ (Alerts(m) # {}) <=> (st(m).label # "NOMINAL")
                  /\ Cardinality(Alerts(m)) <= 1
                  /\ \A i \in Alerts(m) : a[i].severity = st(m)
            /\ Len(a) = Cardinality({m \in MetricNames : st(m).label # "NOMINAL"})
            /\ \A m \in MetricNames :
                  (\E x \in ReadingsOf(m, scan.extracted) : x.t \in {"null", "undefined"})
                      => st(m).label = "NOMINAL" /\ Alerts(m) = {}

\* three alerts, one of them the WATCH of F10.7, while the Kp index and the
\* proton flux have no reading
C36_Witness ==
    /\ scan.fn = "evaluate" /\ scan.pc = "returned"
    /\ scan.extracted.kp_index_1m = JsUndefined
    /\ scan.extracted.proton_flux = JsNull
    /\ scan.ret.metrics["f107_flux"].status = SEV.WATCH
    /\ scan.ret.metrics["solar_wind"].status = SEV.CRITICAL
    /\ Len(scan.ret.alerts) = 3


\* ---- claims about the API key (AuthSpec)

\* the requests turned away in the latest step
Refused == {c \in Callers : out.resp[c].got /\ out.resp[c].err = 401}

\* C37: with API_KEY set, a request to an /api route whose x-api-key header and
\* key query parameter both differ from the key is answered 401 and nothing
\* else happens: getFreshData() is not called, so no refresh is started or
\* joined, and the entry is neither invalidated nor otherwise touched
C37_UnauthorizedHasNoEffect ==
    [][(/\ API_KEY # ""
        /\ out'.get # 0 \/ \E c \in Callers : out'.resp[c].err = 401
        /\ req'.header # API_KEY
        /\ req'.query # API_KEY)
          => /\ \E c \in Callers :
                    out' = [NoOut EXCEPT !.resp[c] = [got |-> TRUE, ret |-> 0, err |-> 401]]
             /\ UNCHANGED <<memoryCache, born, invalPending, isFetching, fetchPromise,
                            ref, callers, pendingPut, blob>>]_vars

\* a request with a wrong header is turned away while a refresh is in flight
\* over an entry that holds a snapshot
C37_Witness ==
    /\ API_KEY = KEY
    /\ Refused # {}
    /\ req = [header |-> "guess", query |-> ""]
    /\ isFetching
    /\ memoryCache.data # Null
    /\ memoryCache.lastFetchBaseMs # 0

====
